---- MODULE Spec2Model ----
(***************************************************************************)
(* Benchmark Aggregation Engine of metriqai (backend/data_fetcher.py).     *)
(*                                                                         *)
(* The engine is three synchronous methods of HuggingFaceDataFetcher that  *)
(* read one list of BenchmarkEntry and build fresh outputs:                *)
(*   compute_summary_statistics, compute_correlation_matrices and          *)
(*   generate_leaderboards.                                                *)
(*                                                                         *)
(* Representation.                                                         *)
(*  - A metric value is a number of tenths: the natural v is the float     *)
(*    v / 10. A mean or a quotient is the fraction [num, den] of the exact *)
(*    operands (Python computes sum/len), a correlation coefficient        *)
(*    rounded to 3 decimals is an integer number of thousandths. Where the *)
(*    rounding of a float decides an outcome (the variance of a row of     *)
(*    equal values, the truncation of a product to an int) the float is    *)
(*    computed bit for bit.                                                *)
(*  - A datetime is an integer day number.                                 *)
(*  - A Python dict is a sequence of <<key, value>> pairs in insertion     *)
(*    order (dicts iterate in insertion order); a Python set iterates in   *)
(*    an order fixed by the process's string hash seed (hashSeed).         *)
(*  - Optional[int] None is NoCount / NoDate (-1: both fields are >= 0     *)
(*    when present); an Optional output is a sequence of length 0 or 1.    *)
(***************************************************************************)
EXTENDS Integers, Sequences, FiniteSets, TLC

VARIABLES
    benchmark_entries,  \* the list handed to the engine (read-only input)
    now,                \* the wall clock read by datetime.now(timezone.utc), in days
    hashSeed,           \* the process's string hash seed (fixes set iteration order)
    summary,            \* <<>> or <<BenchmarkSummary>> returned by the last call
    correlations,       \* <<>> or <<list of CorrelationMatrix>> returned by the last call
    leaderboards,       \* <<>> or <<list of Leaderboard>> returned by the last call
    model_data,         \* the raw fields of one model record handed to the classifiers
    classified,         \* <<>> or <<outcome of the last classifier call>>
    models,             \* the raw model records the hub returned to one fetch
    fetched,            \* <<>> or <<entries returned by fetch_benchmark_data>>
    benchmark_cache,    \* main.py's dict: data and last_updated
    requests,           \* the coroutines of the service: startup and request handlers
    utcnow              \* datetime.utcnow(), in minutes since the process started

vars == <<benchmark_entries, now, hashSeed, summary, correlations, leaderboards,
          model_data, classified, models, fetched, benchmark_cache, requests, utcnow>>

----------------------------------------------------------------------------
(* Bounds of the model *)

MaxEntries == 3     \* longest general input sequence
RankLen == 6        \* length of the ranking inputs (more than TopModels entries of one task)
CorrLen == 4        \* length of the correlation inputs (value lists of unequal length)
MaxTicks == 1       \* how many days the clock may advance during a run
FractionLimbs == 6  \* digits (of LimbBits bits) kept below the unit in the model of a float
MaxTags == 2        \* longest tag list of a raw model record
MaxModels == 3      \* raw model records in one fetch
MaxHandlers == 2    \* request handlers that may be suspended at one time
MaxMinutes == 60     \* how many minutes the clock of the service may advance

(* Program constants *)

TopModels == 5          \* top_models[:5]
MinLeaderboard == 5     \* len(model_results) >= 5
TopEntries == 20        \* sorted_models[:20]
MinPoints == 3          \* len(values) >= 3
MinMetrics == 2         \* len(model_metrics) >= 2, len(valid_metrics) >= 2
TrendDays == 365        \* timedelta(days=365)
MonthDays == 30         \* timedelta(days=30 * month)
TrendMonths == 12       \* range(12)
PerMillion == 1000000   \* 1e6
Thousandths == 1000     \* round(corr, 3)

Precision == 53         \* significant bits of a Python float
LimbBits == 15          \* bits of one digit of a natural number (products stay below 2^31)
ValueScale == 10        \* a metric value v of the model is the float v / 10
Thousand == 1000        \* 1_000, 1_000_000 = 1000^2, 1_000_000_000 = 1000^3
MaxExponent == 1024     \* a float is below 2^1024
MaxDigits == 309        \* a decimal integer of more digits is above every float
ttl_minutes == 60       \* benchmark_cache["ttl_minutes"]
SecondsPerMinute == 60  \* ttl_minutes * 60
OK == 200               \* the status of a handler that returns
ServiceUnavailable == 503
InternalServerError == 500
NoCount == -1           \* parameter_count is None
NoDate == -1            \* created_at is None
NoModelData == [model_id |-> "", tags |-> <<>>, pipeline_tag |-> "", metric_name |-> ""]
Now0 == TrendDays + 35  \* the day the run starts (day 400)

----------------------------------------------------------------------------
(* Sequences, fractions, dicts *)

Front(s) == SubSeq(s, 1, Len(s) - 1)
Last(s) == s[Len(s)]
Take(s, n) == SubSeq(s, 1, IF Len(s) < n THEN Len(s) ELSE n)
Range(s) == {s[i] : i \in DOMAIN s}

RECURSIVE SeqSum(_)
SeqSum(s) == IF s = <<>> THEN 0 ELSE SeqSum(Front(s)) + Last(s)

RECURSIVE SeqMax(_)
SeqMax(s) ==
    IF Len(s) = 1 THEN s[1]
    ELSE LET m == SeqMax(Front(s)) IN IF Last(s) > m THEN Last(s) ELSE m

RECURSIVE SeqMin(_)
SeqMin(s) ==
    IF Len(s) = 1 THEN s[1]
    ELSE LET m == SeqMin(Front(s)) IN IF Last(s) < m THEN Last(s) ELSE m

RECURSIVE Concat(_)
Concat(ss) == IF ss = <<>> THEN <<>> ELSE Concat(Front(ss)) \o Last(ss)

\* a / b as computed by Python's true division of two exact operands
Frac(a, b) == [num |-> a, den |-> b]
FracGT(x, y) == x.num * y.den > y.num * x.den
FracEQ(x, y) == x.num * y.den = y.num * x.den

\* sum(values) / len(values)
Mean(values) == Frac(SeqSum(values), Len(values))

DictFind(d, k) ==
    LET S == {i \in DOMAIN d : d[i][1] = k}
    IN IF S = {} THEN 0 ELSE CHOOSE i \in S : TRUE
DictHas(d, k) == DictFind(d, k) # 0
DictGet(d, k, default) == IF DictHas(d, k) THEN d[DictFind(d, k)][2] ELSE default
DictPut(d, k, v) ==
    IF DictHas(d, k) THEN [d EXCEPT ![DictFind(d, k)] = <<k, v>>]
    ELSE Append(d, <<k, v>>)
DictKeys(d) == [i \in DOMAIN d |-> d[i][1]]
\* {name: sum(values) / len(values) for name, values in metrics.items()}
DictMeans(d) == [i \in DOMAIN d |-> <<d[i][1], Mean(d[i][2])>>]
\* {name: max(values) for name, values in metrics.items()}
DictMaxes(d) == [i \in DOMAIN d |-> <<d[i][1], SeqMax(d[i][2])>>]
\* {name: min(values) for name, values in metrics.items()}
DictMins(d) == [i \in DOMAIN d |-> <<d[i][1], SeqMin(d[i][2])>>]

\* mutant of SortDesc: a descending sort that is not stable (an element goes
\* in front of the elements with an equal key)
RECURSIVE SortDescUnstable(_)
SortDescUnstable(s) ==
    IF s = <<>> THEN <<>>
    ELSE LET done == SortDescUnstable(Front(s))
             x == Last(s)
             k == Cardinality({i \in DOMAIN done : FracGT(done[i][2], x[2])})
         IN SubSeq(done, 1, k) \o <<x>> \o SubSeq(done, k + 1, Len(done))

\* list.sort(key=..., reverse=True) and sorted(..., reverse=True) over a list
\* of <<item, key>> pairs: insertion of each element, in list order, behind
\* every element whose key is not smaller.
RECURSIVE SortDesc(_)
SortDesc(s) ==
    IF s = <<>> THEN <<>>
    ELSE LET done == SortDesc(Front(s))
             x == Last(s)
             ahead == {i \in DOMAIN done : ~FracGT(x[2], done[i][2])}
             k == Cardinality(ahead)
         IN SubSeq(done, 1, k) \o <<x>> \o SubSeq(done, k + 1, Len(done))

----------------------------------------------------------------------------
(* Strings (Python str) *)

CharAt(s, i) == SubSeq(s, i, i)
Digits == "0123456789"
UpperCase == "ABCDEFGHIJKLMNOPQRSTUVWXYZ"
LowerCase == "abcdefghijklmnopqrstuvwxyz"
IndexIn(alphabet, c) ==
    LET S == {i \in 1..Len(alphabet) : CharAt(alphabet, i) = c}
    IN IF S = {} THEN 0 ELSE CHOOSE i \in S : TRUE
IsDigit(c) == IndexIn(Digits, c) # 0
IsSpace(c) == c = " "

\* pattern in text
Contains(pattern, text) ==
    \E i \in 1..(Len(text) - Len(pattern) + 1) :
        SubSeq(text, i, i + Len(pattern) - 1) = pattern

\* str.lower(), the string split in halves
RECURSIVE Lower(_)
Lower(s) ==
    IF Len(s) = 0 THEN ""
    ELSE IF Len(s) = 1
    THEN LET u == IndexIn(UpperCase, s) IN IF u # 0 THEN CharAt(LowerCase, u) ELSE s
    ELSE LET mid == Len(s) \div 2
         IN Lower(SubSeq(s, 1, mid)) \o Lower(SubSeq(s, mid + 1, Len(s)))

\* ' '.join(tags)
RECURSIVE Join(_)
Join(tags) ==
    IF tags = <<>> THEN ""
    ELSE IF Len(tags) = 1 THEN tags[1]
    ELSE Join(Front(tags)) \o " " \o Last(tags)

----------------------------------------------------------------------------
(* Floats (IEEE-754 binary64, round to nearest, ties to even)              *)
(*                                                                         *)
(* A natural number is the sequence of its digits in base Base, least      *)
(* significant first, without a leading zero (Python's int is unbounded).  *)
(* A finite non-negative float x is the natural x * 2^FractionBits, which  *)
(* has at most Precision significant bits; inf is the value Infinity.      *)

Base == 2 ^ LimbBits
FractionBits == FractionLimbs * LimbBits

RECURSIVE Strip(_)
Strip(a) == IF a # <<>> /\ a[Len(a)] = 0 THEN Strip(SubSeq(a, 1, Len(a) - 1)) ELSE a

RECURSIVE BigOf(_)
BigOf(n) == IF n = 0 THEN <<>> ELSE <<n % Base>> \o BigOf(n \div Base)

RECURSIVE AddCarry(_, _, _)
AddCarry(a, b, carry) ==
    IF a = <<>> /\ b = <<>> THEN BigOf(carry)
    ELSE LET t == (IF a = <<>> THEN 0 ELSE Head(a)) + (IF b = <<>> THEN 0 ELSE Head(b)) + carry
         IN <<t % Base>> \o AddCarry(IF a = <<>> THEN <<>> ELSE Tail(a),
                                     IF b = <<>> THEN <<>> ELSE Tail(b), t \div Base)
BigAdd(a, b) == AddCarry(a, b, 0)

\* a * m for 0 <= m <= Base
RECURSIVE MulCarry(_, _, _)
MulCarry(a, m, carry) ==
    IF a = <<>> THEN BigOf(carry)
    ELSE LET t == Head(a) * m + carry
         IN <<t % Base>> \o MulCarry(Tail(a), m, t \div Base)
BigMul(a, m) == Strip(MulCarry(a, m, 0))

\* <<a div d, a mod d>> for 0 < d <= Base, by long division
RECURSIVE DivRem(_, _)
DivRem(a, d) ==
    IF a = <<>> THEN <<<<>>, 0>>
    ELSE LET high == DivRem(Tail(a), d)
             r == high[2] * Base + Head(a)
         IN <<(<<r \div d>>) \o high[1], r % d>>
BigDiv(a, d) == LET qr == DivRem(a, d) IN <<Strip(qr[1]), qr[2]>>

\* a * 2^(k * LimbBits)
ShiftLimbs(a, k) == IF a = <<>> THEN <<>> ELSE [i \in 1..k |-> 0] \o a

\* a < b
RECURSIVE BigLess(_, _)
BigLess(a, b) ==
    IF Len(a) # Len(b) THEN Len(a) < Len(b)
    ELSE IF a = <<>> THEN FALSE
    ELSE IF a[Len(a)] # b[Len(b)] THEN a[Len(a)] < b[Len(b)]
    ELSE BigLess(SubSeq(a, 1, Len(a) - 1), SubSeq(b, 1, Len(b) - 1))

\* the number of bits of a natural
RECURSIVE BitLength(_)
BitLength(n) == IF n = 0 THEN 0 ELSE 1 + BitLength(n \div 2)
BigBitLength(a) ==
    IF a = <<>> THEN 0 ELSE LimbBits * (Len(a) - 1) + BitLength(a[Len(a)])

\* the natural written with the decimal digits of s
RECURSIVE DecimalToBig(_)
DecimalToBig(s) ==
    IF Len(s) = 0 THEN <<>>
    ELSE BigAdd(BigMul(DecimalToBig(SubSeq(s, 1, Len(s) - 1)), 10),
                BigOf(IndexIn(Digits, CharAt(s, Len(s))) - 1))

\* str(n) of a natural
RECURSIVE BigDigits(_)
BigDigits(a) ==
    IF a = <<>> THEN ""
    ELSE LET qr == BigDiv(a, 10) IN BigDigits(qr[1]) \o CharAt(Digits, qr[2] + 1)
BigToDecimal(a) == IF a = <<>> THEN "0" ELSE BigDigits(a)

Infinity == <<Base>>

\* the float nearest to the natural a (in units of 2^-FractionBits) plus,
\* when sticky, a discarded positive remainder: Precision significant bits
\* are kept, the bit below them is the guard bit
RoundToFloat(a, sticky) ==
    IF BigBitLength(a) <= Precision THEN a
    ELSE LET drop == BigBitLength(a) - Precision
             limbs == (drop - 1) \div LimbBits
             bits == (drop - 1) % LimbBits
             cut == BigDiv(SubSeq(a, limbs + 1, Len(a)), 2 ^ bits)
             half == BigDiv(cut[1], 2)
             kept == half[1]
             guard == half[2] = 1
             rest == sticky \/ cut[2] # 0 \/ \E i \in 1..limbs : a[i] # 0
             up == guard /\ (rest \/ kept[1] % 2 = 1)
             rounded == IF up THEN BigAdd(kept, <<1>>) ELSE kept
         IN IF BigBitLength(rounded) + drop > FractionBits + MaxExponent THEN Infinity
            ELSE ShiftLimbs(BigMul(rounded, 2 ^ (drop % LimbBits)), drop \div LimbBits)

\* a / 10^k rounded down, and whether anything was cut off
RECURSIVE DivPow10(_, _)
DivPow10(a, k) ==
    IF k = 0 THEN <<a, FALSE>>
    ELSE LET p == DivPow10(a, k - 1)
             qr == BigDiv(p[1], 10)
         IN <<qr[1], p[2] \/ qr[2] # 0>>

RECURSIVE StripZeros(_)
StripZeros(s) == IF Len(s) > 0 /\ CharAt(s, 1) = "0" THEN StripZeros(SubSeq(s, 2, Len(s))) ELSE s

\* float(literal) for a literal of the form digits [ "." digits ]
FloatOf(literal) ==
    LET dot == IndexIn(literal, ".")
        int_part == IF dot = 0 THEN literal ELSE SubSeq(literal, 1, dot - 1)
        frac_part == IF dot = 0 THEN "" ELSE SubSeq(literal, dot + 1, Len(literal))
    IN IF Len(StripZeros(int_part)) > MaxDigits THEN Infinity
       ELSE LET p == DivPow10(ShiftLimbs(DecimalToBig(int_part \o frac_part), FractionLimbs),
                              Len(frac_part))
            IN RoundToFloat(p[1], p[2])

\* x + y
FloatAdd(x, y) ==
    IF x = Infinity \/ y = Infinity THEN Infinity ELSE RoundToFloat(BigAdd(x, y), FALSE)

\* x * 1000^k: the product by the float 1e3, 1e6 or 1e9, rounded once
RECURSIVE MulThousands(_, _)
MulThousands(a, k) == IF k = 0 THEN a ELSE BigMul(MulThousands(a, k - 1), Thousand)
FloatMul(x, k) == IF x = Infinity THEN Infinity ELSE RoundToFloat(MulThousands(x, k), FALSE)

\* x / n for an integer 0 < n <= Base
FloatDiv(x, n) ==
    IF x = Infinity THEN Infinity
    ELSE LET qr == BigDiv(x, n) IN RoundToFloat(qr[1], qr[2] # 0)

\* int(x) of a finite float: the integer part
Trunc(x) == SubSeq(x, FractionLimbs + 1, Len(x))

----------------------------------------------------------------------------
(* Record model (backend/models.py) *)

\* EvaluationResult: dataset_config defaults to None, dataset_split to "test"
EvaluationResult(name, type, value, dataset) ==
    [metric_name |-> name, metric_type |-> type, value |-> value,
     dataset_name |-> dataset, dataset_config |-> "None", dataset_split |-> "test"]

\* ModelInfo: the fields the engine reads
ModelInfo(id, family, count, task, created) ==
    [model_id |-> id, model_family |-> family, parameter_count |-> count,
     task_type |-> task, created_at |-> created]

BenchmarkEntry(info, results) == [model_info |-> info, evaluation_results |-> results]

\* iteration order of a Python set of strings: a function of the process's
\* hash seed; the two seeds give the two orders of any two elements
HashOrder(seed) ==
    IF seed = 0
    THEN <<"imdb", "sst2", "text-classification", "image-classification">>
    ELSE <<"image-classification", "text-classification", "sst2", "imdb">>

\* mutant of SetToList: an iteration order that changes from call to call
SetToListUnstable(S) == SelectSeq(HashOrder((hashSeed + now) % 2), LAMBDA x : x \in S)

\* list(a_set), and `for x in a_set`
SetToList(S) == SelectSeq(HashOrder(hashSeed), LAMBDA x : x \in S)

\* every (entry, eval_result) of the nested loops
\*   for entry in benchmark_entries: for eval_result in entry.evaluation_results
EntryPairs(entry) ==
    [j \in DOMAIN entry.evaluation_results |-> <<entry, entry.evaluation_results[j]>>]
AllPairs(entries) == Concat([i \in DOMAIN entries |-> EntryPairs(entries[i])])
AllResults(entries) == Concat([i \in DOMAIN entries |-> entries[i].evaluation_results])

\* metrics = defaultdict(list); metrics[r.metric_name].append(r.value)
RECURSIVE MetricLists(_)
MetricLists(results) ==
    IF results = <<>> THEN <<>>
    ELSE LET d == MetricLists(Front(results))
             r == Last(results)
         IN DictPut(d, r.metric_name, Append(DictGet(d, r.metric_name, <<>>), r.value))

----------------------------------------------------------------------------
(* compute_summary_statistics *)

\* mutant of TaskModelCount: the increment inside the loop over the results
RECURSIVE TaskModelCountPerResult(_)
TaskModelCountPerResult(entries) ==
    IF entries = <<>> THEN <<>>
    ELSE LET d == TaskModelCountPerResult(Front(entries))
             t == Last(entries).model_info.task_type
         IN DictPut(d, t, DictGet(d, t, 0) + Len(Last(entries).evaluation_results))

\* task_model_count[model.task_type] += 1
RECURSIVE TaskModelCount(_)
TaskModelCount(entries) ==
    IF entries = <<>> THEN <<>>
    ELSE LET d == TaskModelCount(Front(entries))
             t == Last(entries).model_info.task_type
         IN DictPut(d, t, DictGet(d, t, 0) + 1)

\* datasets.add(eval_result.dataset_name)
Datasets(entries) == {r.dataset_name : r \in Range(AllResults(entries))}

\* dataset_task_map[eval_result.dataset_name].add(model.task_type)
DatasetTaskMap(entries, dataset) ==
    {p[1].model_info.task_type :
        p \in {q \in Range(AllPairs(entries)) : q[2].dataset_name = dataset}}

\* top_models.append((model_id, avg_score)) for the entries that have results
TopModelCandidates(task_entries) ==
    LET scored == SelectSeq(task_entries, LAMBDA e : e.evaluation_results # <<>>)
    IN [i \in DOMAIN scored |->
          <<scored[i].model_info.model_id,
            Mean([j \in DOMAIN scored[i].evaluation_results |->
                    scored[i].evaluation_results[j].value])>>]

\* top_models.sort(key=lambda x: x[1], reverse=True); top_models[:5]
TopModelIds(task_entries) ==
    LET top == Take(SortDesc(TopModelCandidates(task_entries)), TopModels)
    IN [i \in DOMAIN top |-> top[i][1]]

TaskStatsOf(entries, task_type, model_count) ==
    LET task_entries == SelectSeq(entries, LAMBDA e : e.model_info.task_type = task_type)
        task_datasets == {d \in Datasets(entries) : task_type \in DatasetTaskMap(entries, d)}
    IN [task_type |-> task_type,
        model_count |-> model_count,
        dataset_count |-> Cardinality(task_datasets),
        avg_metrics |-> DictMeans(MetricLists(AllResults(task_entries))),
        top_models |-> TopModelIds(task_entries)]

TaskStatsList(entries) ==
    LET counts == TaskModelCount(entries)
    IN [k \in DOMAIN counts |-> TaskStatsOf(entries, counts[k][1], counts[k][2])]

DatasetStatsOf(entries, dataset_name) ==
    LET hits == SelectSeq(AllPairs(entries), LAMBDA p : p[2].dataset_name = dataset_name)
        dataset_entries == [i \in DOMAIN hits |-> hits[i][2]]
        task_types == {hits[i][1].model_info.task_type : i \in DOMAIN hits}
        metrics == MetricLists(dataset_entries)
    IN [dataset_name |-> dataset_name,
        task_type |-> SetToList(task_types)[1],
        model_count |-> Cardinality({hits[i][1].model_info.model_id : i \in DOMAIN hits}),
        avg_performance |-> DictMeans(metrics),
        best_performance |-> DictMaxes(metrics),
        worst_performance |-> DictMins(metrics)]

DatasetStatsList(entries) ==
    LET names == SetToList(Datasets(entries))
    IN [k \in DOMAIN names |-> DatasetStatsOf(entries, names[k])]

\* family_stats[family]['count'] += 1, ['metrics'][name].append(value),
\* ['tasks'][task_type] += 1: once per evaluation result
RECURSIVE FamilyStatsDict(_)
FamilyStatsDict(pairs) ==
    IF pairs = <<>> THEN <<>>
    ELSE LET d == FamilyStatsDict(Front(pairs))
             model == Last(pairs)[1].model_info
             r == Last(pairs)[2]
             old == DictGet(d, model.model_family,
                            [count |-> 0, metrics |-> <<>>, tasks |-> <<>>])
         IN DictPut(d, model.model_family,
              [count |-> old.count + 1,
               metrics |-> DictPut(old.metrics, r.metric_name,
                              Append(DictGet(old.metrics, r.metric_name, <<>>), r.value)),
               tasks |-> DictPut(old.tasks, model.task_type,
                              DictGet(old.tasks, model.task_type, 0) + 1)])

\* `... and entry.model_info.parameter_count`: None and 0 are both falsy
ParamCounts(entries, family) ==
    LET known == SelectSeq(entries, LAMBDA e :
                    /\ e.model_info.model_family = family
                    /\ e.model_info.parameter_count # NoCount
                    /\ e.model_info.parameter_count # 0)
    IN [i \in DOMAIN known |-> known[i].model_info.parameter_count]

\* mutant of ModelFamilyStatsOf: the mean of param_counts without `if param_counts`
ModelFamilyStatsOfUnguarded(entries, family, stats) ==
    LET param_counts == ParamCounts(entries, family)
    IN [family |-> family,
        model_count |-> stats.count,
        avg_parameter_count |-> <<Mean(param_counts)>>,
        avg_performance |-> DictMeans(stats.metrics),
        task_distribution |-> stats.tasks]

ModelFamilyStatsOf(entries, family, stats) ==
    LET param_counts == ParamCounts(entries, family)
    IN [family |-> family,
        model_count |-> stats.count,
        avg_parameter_count |->
            IF param_counts # <<>> THEN <<Mean(param_counts)>> ELSE <<>>,
        avg_performance |-> DictMeans(stats.metrics),
        task_distribution |-> stats.tasks]

ModelFamilyStatsList(entries) ==
    LET d == FamilyStatsDict(AllPairs(entries))
    IN [k \in DOMAIN d |-> ModelFamilyStatsOf(entries, d[k][1], d[k][2])]

TrendDateCalendar(end_date, month) == (end_date - TrendDays) + (MonthDays + 1) * month

\* trend_date = start_date + timedelta(days=30 * month)
TrendDate(end_date, month) == (end_date - TrendDays) + MonthDays * month

\* mutant of PeriodEntries: created_at < trend_date
PeriodEntriesBefore(entries, task_type, trend_date) ==
    SelectSeq(entries, LAMBDA e :
        /\ e.model_info.task_type = task_type
        /\ e.model_info.created_at # NoDate
        /\ e.model_info.created_at < trend_date)

\* the entries of the task created no later than the checkpoint
PeriodEntries(entries, task_type, trend_date) ==
    SelectSeq(entries, LAMBDA e :
        /\ e.model_info.task_type = task_type
        /\ e.model_info.created_at # NoDate
        /\ e.model_info.created_at <= trend_date)

TrendPoints(entries, task_type, trend_date) ==
    LET period_entries == PeriodEntries(entries, task_type, trend_date)
        metrics == MetricLists(AllResults(period_entries))
    IN [k \in DOMAIN metrics |->
          [date |-> trend_date,
           task_type |-> task_type,
           metric_name |-> metrics[k][1],
           avg_value |-> Mean(metrics[k][2]),
           model_count |-> Len(period_entries),
           best_value |-> SeqMax(metrics[k][2])]]

TrendData(entries, end_date) ==
    LET tasks == DictKeys(TaskModelCount(entries))
    IN Concat([t \in DOMAIN tasks |->
          Concat([m \in 1..TrendMonths |->
             TrendPoints(entries, tasks[t], TrendDate(end_date, m - 1))])])

compute_summary_statistics(entries) ==
    [total_models |-> Len(entries),
     total_datasets |-> Cardinality(Datasets(entries)),
     task_stats |-> TaskStatsList(entries),
     dataset_stats |-> DatasetStatsList(entries),
     model_family_stats |-> ModelFamilyStatsList(entries),
     trend_data |-> TrendData(entries, now),
     last_updated |-> now]

----------------------------------------------------------------------------
(* compute_correlation_matrices *)

\* model_metrics[eval_result.metric_name] = eval_result.value (the last value wins)
RECURSIVE ModelMetrics(_)
ModelMetrics(results) ==
    IF results = <<>> THEN <<>>
    ELSE DictPut(ModelMetrics(Front(results)), Last(results).metric_name, Last(results).value)

\* for metric_name, value in model_metrics.items(): metrics[metric_name].append(value)
RECURSIVE AppendMetrics(_, _)
AppendMetrics(metrics, model_metrics) ==
    IF model_metrics = <<>> THEN metrics
    ELSE LET d == AppendMetrics(metrics, Front(model_metrics))
             kv == Last(model_metrics)
         IN DictPut(d, kv[1], Append(DictGet(d, kv[1], <<>>), kv[2]))

\* task_metrics[task_type][metric_name].append(value), for the entries that
\* carry at least two metric names
RECURSIVE TaskMetrics(_)
TaskMetrics(entries) ==
    IF entries = <<>> THEN <<>>
    ELSE LET d == TaskMetrics(Front(entries))
             entry == Last(entries)
             task_type == entry.model_info.task_type
             model_metrics == ModelMetrics(entry.evaluation_results)
         IN IF Len(model_metrics) >= MinMetrics
            THEN DictPut(d, task_type, AppendMetrics(DictGet(d, task_type, <<>>), model_metrics))
            ELSE d

\* mutant of ValidMetrics: > for >=
ValidMetricsAbove(metrics_dict) == SelectSeq(metrics_dict, LAMBDA kv : Len(kv[2]) > MinPoints)

\* {name: values for name, values in metrics_dict.items() if len(values) >= 3}
ValidMetrics(metrics_dict) == SelectSeq(metrics_dict, LAMBDA kv : Len(kv[2]) >= MinPoints)

\* floor(4 * 10^6 * x / v) for 0 <= x <= v, by long division (no wide products)
RECURSIVE LongDiv(_, _, _)
LongDiv(x, v, digits) ==
    IF digits = 0 THEN <<x \div v, x % v>>
    ELSE LET p == LongDiv(x, v, digits - 1)
         IN <<p[1] * 10 + (p[2] * 10) \div v, (p[2] * 10) % v>>
ScaledQuotient(x, v) ==
    LET p == LongDiv(x, v, 6) IN 4 * p[1] + (4 * p[2]) \div v

\* the largest m in lo..hi with m * m <= t
RECURSIVE ISqrt(_, _, _)
ISqrt(t, lo, hi) ==
    IF lo >= hi THEN lo
    ELSE LET mid == (lo + hi + 1) \div 2
         IN IF mid * mid <= t THEN ISqrt(t, mid, hi) ELSE ISqrt(t, lo, mid - 1)

\* the float of a metric value: the natural v stands for the float v / 10
FloatOfValue(v) == FloatDiv(ShiftLimbs(BigOf(v), FractionLimbs), ValueScale)

\* X.mean(axis=1) of np.cov for a row of fewer than 8 floats: the sum of the
\* values, added one by one, divided by their number
RECURSIVE FloatSum(_)
FloatSum(values) ==
    IF Len(values) = 1 THEN FloatOfValue(values[1])
    ELSE FloatAdd(FloatSum(Front(values)), FloatOfValue(Last(values)))
FloatMean(values) == FloatDiv(FloatSum(values), Len(values))

\* X -= avg of np.cov for a row of equal values: the sign of value - mean,
\* which is 0 only when the float mean of the row is the value itself
Deviation(values) ==
    LET x == FloatOfValue(values[1])
        avg == FloatMean(values)
    IN IF x = avg THEN 0 ELSE IF BigLess(x, avg) THEN -1 ELSE 1

\* round(np.corrcoef(values1, values2)[0, 1], 3) in thousandths, nan -> 0.0.
\* Two rows with variance: r = C / sqrt(Vx * Vy) with C = n*Sxy - Sx*Sy,
\* Vx = n*Sxx - Sx^2, Vy = n*Syy - Sy^2 (float error is far below 0.0005);
\* |r| rounds to floor((floor(2000 |r|) + 1) / 2) thousandths.
\* Two rows of equal values: the deviations of a row are all d = value - mean;
\* with d = 0 in a row the covariance and that variance are 0 and r = 0/0 is
\* nan, otherwise r = n*d*e / (sqrt(n*d*d) * sqrt(n*e*e)) is +1 or -1.
\* One row of equal values only: r is nan (d = 0) or at most a rounding
\* error of the other row's deviations in size, which rounds to 0.0.
Pearson(values1, values2) ==
    LET n == Len(values1)
        sx == SeqSum(values1)
        sy == SeqSum(values2)
        sxy == SeqSum([i \in 1..n |-> values1[i] * values2[i]])
        sxx == SeqSum([i \in 1..n |-> values1[i] * values1[i]])
        syy == SeqSum([i \in 1..n |-> values2[i] * values2[i]])
        c == n * sxy - sx * sy
        vx == n * sxx - sx * sx
        vy == n * syy - sy * sy
    IN IF vx # 0 /\ vy # 0
       THEN LET magnitude == (ISqrt(ScaledQuotient(c * c, vx * vy), 0, 2 * Thousandths) + 1) \div 2
            IN IF c < 0 THEN 0 - magnitude ELSE magnitude
       ELSE IF vx = 0 /\ vy = 0
       THEN Deviation(values1) * Deviation(values2) * Thousandths
       ELSE 0

\* mutant of Correlation: the second list cut to its last min_len values
CorrelationTail(values1, values2) ==
    LET min_len == IF Len(values1) < Len(values2) THEN Len(values1) ELSE Len(values2)
    IN Pearson(SubSeq(values1, 1, min_len),
               SubSeq(values2, Len(values2) - min_len + 1, Len(values2)))

\* one off-diagonal cell: both lists cut to the shorter length
Correlation(values1, values2) ==
    LET min_len == IF Len(values1) < Len(values2) THEN Len(values1) ELSE Len(values2)
    IN Pearson(SubSeq(values1, 1, min_len), SubSeq(values2, 1, min_len))

CorrelationMatrixOf(task_type, valid_metrics) ==
    LET n_metrics == Len(valid_metrics)
    IN [metrics |-> DictKeys(valid_metrics),
        correlation_matrix |->
            [i \in 1..n_metrics |-> [j \in 1..n_metrics |->
                IF i = j THEN Thousandths
                ELSE Correlation(valid_metrics[i][2], valid_metrics[j][2])]],
        task_type |-> task_type]

compute_correlation_matrices(entries) ==
    LET task_metrics == TaskMetrics(entries)
        qualifying == SelectSeq(task_metrics,
                        LAMBDA kv : Len(ValidMetrics(kv[2])) >= MinMetrics)
    IN [k \in DOMAIN qualifying |->
          CorrelationMatrixOf(qualifying[k][1], ValidMetrics(qualifying[k][2]))]

----------------------------------------------------------------------------
(* generate_leaderboards *)

\* task_dataset_models[task_type][dataset_name].append((entry, eval_result))
RECURSIVE TaskDatasetModels(_)
TaskDatasetModels(pairs) ==
    IF pairs = <<>> THEN <<>>
    ELSE LET d == TaskDatasetModels(Front(pairs))
             pair == Last(pairs)
             task_type == pair[1].model_info.task_type
             dataset_name == pair[2].dataset_name
             dataset_dict == DictGet(d, task_type, <<>>)
         IN DictPut(d, task_type,
              DictPut(dataset_dict, dataset_name,
                 Append(DictGet(dataset_dict, dataset_name, <<>>), pair)))

\* mutant of KeepsBest: >= for >, so a later pair with an equal value replaces
\* the earlier one
KeepsBestOrEqual(model_best, pair) ==
    \/ ~DictHas(model_best, pair[1].model_info.model_id)
    \/ pair[2].value >= DictGet(model_best, pair[1].model_info.model_id, pair)[2].value

\* if model_id not in model_best or eval_result.value > model_best[model_id][1].value
KeepsBest(model_best, pair) ==
    \/ ~DictHas(model_best, pair[1].model_info.model_id)
    \/ pair[2].value > DictGet(model_best, pair[1].model_info.model_id, pair)[2].value

RECURSIVE ModelBest(_)
ModelBest(model_results) ==
    IF model_results = <<>> THEN <<>>
    ELSE LET d == ModelBest(Front(model_results))
             pair == Last(model_results)
         IN IF KeepsBest(d, pair) THEN DictPut(d, pair[1].model_info.model_id, pair) ELSE d

\* mutant of SortedModels: the sort left out, the models in dict order
SortedModelsUnsorted(model_best) == [i \in DOMAIN model_best |-> model_best[i][2]]

\* sorted(model_best.values(), key=lambda x: x[1].value, reverse=True)
SortedModels(model_best) ==
    LET keyed == [i \in DOMAIN model_best |->
                    <<model_best[i][2], Frac(model_best[i][2][2].value, 1)>>]
        sorted == SortDesc(keyed)
    IN [i \in DOMAIN sorted |-> sorted[i][1]]

\* mutant of EfficiencyScore: only `parameter_count is not None` is tested
EfficiencyScoreAnyCount(model_info, primary_metric) ==
    IF model_info.parameter_count # NoCount
    THEN <<Frac(primary_metric.value * PerMillion, model_info.parameter_count)>>
    ELSE <<>>

\* primary_metric.value / (parameter_count / 1e6), when parameter_count is truthy and > 0
EfficiencyScore(model_info, primary_metric) ==
    IF /\ model_info.parameter_count # NoCount
       /\ model_info.parameter_count # 0
       /\ model_info.parameter_count > 0
    THEN <<Frac(primary_metric.value * PerMillion, model_info.parameter_count)>>
    ELSE <<>>

\* for _, eval_result in model_results:
\*     if eval_result.dataset_name == dataset_name and eval_result != primary_metric
SecondaryMetrics(model_results, entry, dataset_name, primary_metric) ==
    LET others == SelectSeq(model_results, LAMBDA p :
                     /\ p[2].dataset_name = dataset_name
                     /\ p[2] # primary_metric)
    IN [i \in DOMAIN others |-> others[i][2]]

LeaderboardEntries(model_results, dataset_name) ==
    LET top == Take(SortedModels(ModelBest(model_results)), TopEntries)
    IN [rank \in DOMAIN top |->
          [rank |-> rank,
           model_info |-> top[rank][1].model_info,
           primary_metric |-> top[rank][2],
           secondary_metrics |->
               SecondaryMetrics(model_results, top[rank][1], dataset_name, top[rank][2]),
           efficiency_score |-> EfficiencyScore(top[rank][1].model_info, top[rank][2])]]

LeaderboardOf(task_type, dataset_name, model_results) ==
    LET entries == LeaderboardEntries(model_results, dataset_name)
    IN [task_type |-> task_type,
        dataset_name |-> dataset_name,
        metric_name |-> entries[1].primary_metric.metric_name,
        entries |-> entries,
        last_updated |-> now]

\* mutant of Qualifies: > for >=
QualifiesAbove(model_results) == Len(model_results) > MinLeaderboard

\* if len(model_results) >= 5
Qualifies(model_results) == Len(model_results) >= MinLeaderboard

\* the groups in iteration order: tasks, then each task's datasets
Groups(entries) ==
    LET d == TaskDatasetModels(AllPairs(entries))
    IN Concat([t \in DOMAIN d |->
          [k \in DOMAIN d[t][2] |->
              [task_type |-> d[t][1], dataset_name |-> d[t][2][k][1],
               model_results |-> d[t][2][k][2]]]])

\* one leaderboard per qualifying group, `if entries:`
generate_leaderboards(entries) ==
    LET kept == SelectSeq(Groups(entries), LAMBDA g :
                   /\ Qualifies(g.model_results)
                   /\ LeaderboardEntries(g.model_results, g.dataset_name) # <<>>)
    IN [k \in DOMAIN kept |->
          LeaderboardOf(kept[k].task_type, kept[k].dataset_name, kept[k].model_results)]

----------------------------------------------------------------------------
(* The classifiers of a raw model record (data_fetcher.py 165-325).        *)
(* Enum members are written as their string values; an absent result is    *)
(* "None", a parameter count is the decimal text of the int, and a raised  *)
(* exception is the name of its class.                                     *)

Least(S) == CHOOSE x \in S : \A y \in S : x <= y

\* the dict family_patterns, in insertion order
family_patterns ==
    << <<"bert", <<"bert", "distilbert", "roberta", "deberta", "albert">> >>,
       <<"gpt", <<"gpt", "gpt2", "gpt-neo", "gpt-j">> >>,
       <<"t5", <<"t5", "flan-t5", "ul2">> >>,
       <<"llama", <<"llama", "llama2", "llama-2">> >>,
       <<"mistral", <<"mistral">> >>,
       <<"gemma", <<"gemma">> >>,
       <<"falcon", <<"falcon">> >>,
       <<"bloom", <<"bloom">> >>,
       <<"resnet", <<"resnet">> >>,
       <<"vit", <<"vit", "vision-transformer", "deit">> >>,
       <<"efficientnet", <<"efficientnet">> >>,
       <<"mobilenet", <<"mobilenet">> >>,
       <<"densenet", <<"densenet">> >>,
       <<"inception", <<"inception">> >>,
       <<"clip", <<"clip">> >>,
       <<"blip", <<"blip">> >>,
       <<"whisper", <<"whisper">> >>,
       <<"wav2vec", <<"wav2vec">> >>,
       <<"electra", <<"electra">> >> >>

\* [tag.lower() for tag in tags]
LowerAll(tags) == [i \in DOMAIN tags |-> Lower(tags[i])]

\* any(pattern in model_id_lower or pattern in ' '.join(tags_lower) for pattern in patterns)
FamilyHits(model_id, tags) ==
    LET model_id_lower == Lower(model_id)
        tag_text == Join(LowerAll(tags))
    IN {k \in DOMAIN family_patterns :
            \E i \in DOMAIN family_patterns[k][2] :
                \/ Contains(family_patterns[k][2][i], model_id_lower)
                \/ Contains(family_patterns[k][2][i], tag_text)}

_extract_model_family_last(model_id, tags) ==
    LET hits == FamilyHits(model_id, tags)
    IN IF hits = {} THEN "other"
       ELSE family_patterns[CHOOSE k \in hits : \A j \in hits : j <= k][1]

\* _extract_model_family: the first family of the table with a hit
_extract_model_family(model_id, tags) ==
    LET hits == FamilyHits(model_id, tags)
    IN IF hits = {} THEN "other" ELSE family_patterns[Least(hits)][1]

\* the if/elif ladder of _extract_model_size, top to bottom
size_ladder ==
    << <<"tiny", <<"tiny", "mini">> >>,
       <<"small", <<"small", "lite">> >>,
       <<"base", <<"base">> >>,
       <<"large", <<"large">> >>,
       <<"xl", <<"xl", "x-large">> >>,
       <<"xxl", <<"xxl", "xx-large", "11b", "13b", "30b", "70b">> >> >>

\* f"{model_id} {' '.join(tags)}".lower()
ModelText(model_id, tags) == Lower(model_id \o " " \o Join(tags))

\* the rungs with any(size in text for size in [...])
SizeHits(text) ==
    {k \in DOMAIN size_ladder :
        \E i \in DOMAIN size_ladder[k][2] : Contains(size_ladder[k][2][i], text)}

_extract_model_size_last(model_id, tags) ==
    LET hits == SizeHits(ModelText(model_id, tags))
    IN IF hits = {} THEN "None"
       ELSE size_ladder[CHOOSE k \in hits : \A j \in hits : j <= k][1]

\* _extract_model_size: the first rung of the ladder with a hit
_extract_model_size(model_id, tags) ==
    LET hits == SizeHits(ModelText(model_id, tags))
    IN IF hits = {} THEN "None" ELSE size_ladder[Least(hits)][1]

\* the list patterns; marker is the letter the expression requires after
\* the number and the optional white space
patterns ==
    << [source |-> "(\\d+\\.?\\d*)\\s*b(?:illion)?", marker |-> "b"],
       [source |-> "(\\d+\\.?\\d*)\\s*m(?:illion)?", marker |-> "m"],
       [source |-> "(\\d+\\.?\\d*)\\s*k(?:thousand)?", marker |-> "k"] >>

\* the last index of the run of digits that starts at i (i - 1 if none)
RunEnd(text, i) ==
    LET stops == {k \in i..Len(text) : ~IsDigit(CharAt(text, k))}
    IN IF stops = {} THEN Len(text) ELSE Least(stops) - 1

\* the end of the longest \d+\.?\d* at i; a shorter group ends before a
\* digit or a dot and cannot be followed by \s* and the marker
GroupEnd(text, i) ==
    LET e == RunEnd(text, i)
    IN IF e < Len(text) /\ CharAt(text, e + 1) = "." THEN RunEnd(text, e + 2) ELSE e

\* the first index from i on that holds no white space
SkipSpaces(text, i) ==
    LET stops == {k \in i..Len(text) : ~IsSpace(CharAt(text, k))}
    IN IF stops = {} THEN Len(text) + 1 ELSE Least(stops)

\* the expression matches at i; a match inside a run of digits implies one
\* at the start of the run, so only starts of runs are tried
MatchAt(text, i, marker) ==
    /\ IsDigit(CharAt(text, i))
    /\ i = 1 \/ ~IsDigit(CharAt(text, i - 1))
    /\ LET j == SkipSpaces(text, GroupEnd(text, i) + 1)
       IN j <= Len(text) /\ CharAt(text, j) = marker

\* re.search(pattern, text): <<>> or <<match.group(1)>> of the leftmost match
Search(pattern, text) ==
    LET starts == {i \in 1..Len(text) : MatchAt(text, i, pattern.marker)}
    IN IF starts = {} THEN <<>>
       ELSE LET i == Least(starts) IN <<SubSeq(text, i, GroupEnd(text, i))>>

\* int(x): OverflowError for inf
IntOf(x) == IF x = Infinity THEN "OverflowError" ELSE BigToDecimal(Trunc(x))

UnitPowerMillion(pattern) ==
    IF Contains("b", pattern.source) THEN 2
    ELSE IF Contains("m", pattern.source) THEN 2
    ELSE 1

\* the branch `if 'b' in pattern ... elif 'm' ... elif 'k'` as a power of 1000
UnitPower(pattern) ==
    IF Contains("b", pattern.source) THEN 3
    ELSE IF Contains("m", pattern.source) THEN 2
    ELSE 1

\* _extract_parameter_count
_extract_parameter_count(model_id, tags) ==
    LET text == ModelText(model_id, tags)
        matching == {k \in DOMAIN patterns : Search(patterns[k], text) # <<>>}
    IN IF matching = {} THEN "None"
       ELSE LET pattern == patterns[Least(matching)]
                num == FloatOf(Search(pattern, text)[1])
            IN IntOf(FloatMul(num, UnitPower(pattern)))

\* the dict mapping of _map_pipeline_to_task
pipeline_mapping ==
    << <<"text-classification", "text-classification">>,
       <<"token-classification", "token-classification">>,
       <<"question-answering", "question-answering">>,
       <<"text-generation", "text-generation">>,
       <<"text2text-generation", "text2text-generation">>,
       <<"translation", "translation">>,
       <<"summarization", "summarization">>,
       <<"image-classification", "image-classification">>,
       <<"object-detection", "object-detection">>,
       <<"image-segmentation", "image-segmentation">>,
       <<"automatic-speech-recognition", "automatic-speech-recognition">>,
       <<"audio-classification", "audio-classification">>,
       <<"tabular-classification", "tabular-classification">>,
       <<"tabular-regression", "tabular-regression">> >>

\* mapping.get(pipeline_tag, TaskType.TEXT_CLASSIFICATION)
_map_pipeline_to_task(pipeline_tag) ==
    DictGet(pipeline_mapping, pipeline_tag, "text-classification")

\* the dict mapping of _map_metric_name, in insertion order
metric_mapping ==
    << <<"accuracy", "accuracy">>, <<"f1", "f1">>, <<"precision", "precision">>,
       <<"recall", "recall">>, <<"bleu", "bleu">>, <<"rouge", "rouge">>,
       <<"rouge1", "rouge">>, <<"rouge2", "rouge">>, <<"rougel", "rouge">>,
       <<"perplexity", "perplexity">>, <<"wer", "wer">>, <<"cer", "cer">>,
       <<"exact_match", "exact_match">>, <<"squad", "squad">>,
       <<"bertscore", "bertscore">>, <<"meteor", "meteor">>, <<"mse", "mse">>,
       <<"mae", "mae">>, <<"r2", "r2">>, <<"auc", "auc">>, <<"map", "map">>,
       <<"iou", "iou">> >>

\* _map_metric_name: `if key in metric_name` on the name as it is passed
_map_metric_name(metric_name) ==
    LET hits == {k \in DOMAIN metric_mapping : Contains(metric_mapping[k][1], metric_name)}
    IN IF hits = {} THEN "accuracy" ELSE metric_mapping[Least(hits)][2]

----------------------------------------------------------------------------
(* Ingestion of raw model records (data_fetcher.py 261-292, 346-532).      *)
(* A raw record is the dict of one model as the hub returns it. A field    *)
(* that may be missing is <<>> or <<value>>. A timestamp is the instant    *)
(* it denotes (iso) or a text datetime.fromisoformat rejects; a metric     *)
(* value is a number or something float() rejects (number).                *)

Timestamp(iso, instant) == [iso |-> iso, instant |-> instant]
MetricValue(number, value) == [number |-> number, value |-> value]
RawMetric(name, value) == [name |-> name, value |-> value]
RawResult(wellformed, dataset, metrics) ==
    [wellformed |-> wellformed, dataset |-> dataset, metrics |-> metrics]
RawModel(id, pipeline_tag, createdAt, cardData) ==
    [id |-> id, tags |-> <<>>, pipeline_tag |-> pipeline_tag,
     createdAt |-> createdAt, cardData |-> cardData]

\* the metrics of one result up to the first whose value float() rejects
\* (the exception leaves the loop over the metrics, 272-290)
ParsedMetrics(result) ==
    LET metrics == result.metrics
        bad == {k \in DOMAIN metrics :
                   metrics[k].value # <<>> /\ ~metrics[k].value[1].number}
        stop == IF bad = {} THEN Len(metrics) + 1 ELSE Least(bad)
        kept == SelectSeq(SubSeq(metrics, 1, stop - 1), LAMBDA m : m.value # <<>>)
        dataset_name == IF result.dataset = <<>> THEN "unknown" ELSE result.dataset[1]
    IN [k \in DOMAIN kept |->
           EvaluationResult(Lower(kept[k].name), _map_metric_name(Lower(kept[k].name)),
                            kept[k].value[1].value, dataset_name)]

\* _parse_eval_results: a result that is no dict raises inside the try and
\* is skipped (266, 288-290)
_parse_eval_results(eval_results) ==
    Concat([k \in DOMAIN eval_results |->
               IF eval_results[k].wellformed THEN ParsedMetrics(eval_results[k]) ELSE <<>>])

\* the dict performance_ranges: the metric names of a (task, family)
performance_ranges ==
    << <<<<"text-classification", "bert">>, <<"accuracy", "f1">> >>,
       <<<<"text-classification", "roberta">>, <<"accuracy", "f1">> >>,
       <<<<"text-classification", "distilbert">>, <<"accuracy", "f1">> >>,
       <<<<"image-classification", "vit">>, <<"accuracy", "map">> >>,
       <<<<"image-classification", "resnet">>, <<"accuracy", "map">> >>,
       <<<<"text-generation", "gpt">>, <<"perplexity", "bleu">> >>,
       <<<<"text-generation", "llama">>, <<"perplexity", "bleu">> >>,
       <<<<"question-answering", "bert">>, <<"exact_match", "f1">> >> >>

\* the dict dataset_mapping
dataset_mapping ==
    << <<"text-classification", <<"imdb", "sst2", "ag_news", "yelp_polarity">> >>,
       <<"image-classification", <<"imagenet", "cifar10", "cifar100", "food101">> >>,
       <<"text-generation", <<"wikitext", "openwebtext", "c4", "pile">> >>,
       <<"question-answering", <<"squad", "squad_v2", "natural_questions", "ms_marco">> >>,
       <<"token-classification", <<"conll2003", "ontonotes5", "wikiann", "pos_tags">> >>,
       <<"translation", <<"wmt14", "wmt16", "opus", "flores">> >>,
       <<"summarization", <<"cnn_dailymail", "xsum", "multi_news", "reddit_tifu">> >> >>

\* _generate_synthetic_eval_results; value stands for the draws of
\* np.random.uniform, one draw for all results of a record
_generate_synthetic_eval_results(task_type, model_family, value) ==
    LET datasets == Take(DictGet(dataset_mapping, task_type, <<"synthetic_dataset">>), 2)
        perf_range == DictGet(performance_ranges, <<task_type, model_family>>,
                              <<"accuracy", "f1">>)
    IN Concat([d \in DOMAIN datasets |->
          [m \in DOMAIN perf_range |->
              EvaluationResult(perf_range[m], _map_metric_name(perf_range[m]),
                               value, datasets[d])]])

\* int of the decimal text of a count
RECURSIVE IntValue(_)
IntValue(s) ==
    IF Len(s) = 0 THEN 0
    ELSE 10 * IntValue(SubSeq(s, 1, Len(s) - 1)) + (IndexIn(Digits, CharAt(s, Len(s))) - 1)

CreatedAtAbsent(raw) ==
    IF raw.createdAt = <<>> THEN NoDate
    ELSE IF raw.createdAt[1].iso THEN raw.createdAt[1].instant
    ELSE NoDate

\* created_at (449-460): None, the parsed instant, or the current time when
\* parsing fails
CreatedAt(raw) ==
    IF raw.createdAt = <<>> THEN NoDate
    ELSE IF raw.createdAt[1].iso THEN raw.createdAt[1].instant
    ELSE now

\* the body of the loop over the records (435-517): <<>> when the record is
\* skipped or raises, <<entry>> otherwise
ProcessModel(raw, value) ==
    IF raw.id = "" THEN <<>>
    ELSE LET task_type == _map_pipeline_to_task(raw.pipeline_tag)
             model_family == _extract_model_family(raw.id, raw.tags)
             parameter_count == _extract_parameter_count(raw.id, raw.tags)
             iterable == raw.cardData = <<>> \/ raw.cardData[1].iterable
             parsed == IF raw.cardData = <<>> THEN <<>>
                       ELSE _parse_eval_results(raw.cardData[1].results)
             eval_results ==
                 IF parsed = <<>>
                 THEN _generate_synthetic_eval_results(task_type, model_family, value)
                 ELSE parsed
         IN IF parameter_count = "OverflowError" \/ ~iterable \/ eval_results = <<>> THEN <<>>
            ELSE <<BenchmarkEntry(
                     ModelInfo(raw.id, model_family,
                               IF parameter_count = "None" THEN NoCount
                               ELSE IntValue(parameter_count),
                               task_type, CreatedAt(raw)),
                     eval_results)>>

\* unique_entries (520-527): the first entry of every model_id
UniqueEntries(entries) ==
    SelectSeq([k \in DOMAIN entries |->
                  [entry |-> entries[k],
                   first |-> \A j \in 1..(k - 1) :
                                entries[j].model_info.model_id # entries[k].model_info.model_id]],
              LAMBDA e : e.first)

\* fetch_benchmark_data on the records the hub returned and the entries of
\* fetch_real_benchmark_data
fetch_benchmark_data(raw_models, real_benchmarks, value) ==
    LET processed == Concat([k \in DOMAIN raw_models |-> ProcessModel(raw_models[k], value)])
        unique == UniqueEntries(processed \o real_benchmarks)
    IN [k \in DOMAIN unique |-> unique[k].entry]

(* The service (main.py). Every coroutine runs on one event loop: the     *)
(* code between two awaits is one step. Time is in minutes.                *)

\* benchmark_cache before the first refresh (main.py 39-43); a field that is
\* None is <<>> (data) or NoDate (last_updated)
EmptyCache == [data |-> <<>>, last_updated |-> NoDate]

\* is_cache_valid()
is_cache_valid_inclusive ==
    IF benchmark_cache.data = <<>> \/ benchmark_cache.last_updated = NoDate THEN FALSE
    ELSE (utcnow - benchmark_cache.last_updated) * SecondsPerMinute
             <= ttl_minutes * SecondsPerMinute

is_cache_valid ==
    IF benchmark_cache.data = <<>> \/ benchmark_cache.last_updated = NoDate THEN FALSE
    ELSE (utcnow - benchmark_cache.last_updated) * SecondsPerMinute
             < ttl_minutes * SecondsPerMinute

BenchmarkResponseStale(entries) ==
    [data |-> entries,
     summary |-> IF benchmark_cache.data = <<>> THEN compute_summary_statistics(entries)
                 ELSE benchmark_cache.data[1].summary,
     correlations |-> compute_correlation_matrices(entries),
     leaderboards |-> generate_leaderboards(entries)]

\* refresh_cache 69-79: the response built from the entries just fetched
BenchmarkResponse(entries) ==
    [data |-> entries,
     summary |-> compute_summary_statistics(entries),
     correlations |-> compute_correlation_matrices(entries),
     leaderboards |-> generate_leaderboards(entries)]

DataAfterFetchClearing(benchmark_entries_fetched) ==
    IF benchmark_entries_fetched = <<>> THEN <<>>
    ELSE <<BenchmarkResponse(benchmark_entries_fetched)>>

\* benchmark_cache["data"] after refresh_cache 64-79: no entries return early
DataAfterFetch(benchmark_entries_fetched) ==
    IF benchmark_entries_fetched = <<>> THEN benchmark_cache.data
    ELSE <<BenchmarkResponse(benchmark_entries_fetched)>>

LastUpdatedKept(benchmark_entries_fetched) == benchmark_cache.last_updated

\* benchmark_cache["last_updated"] after refresh_cache 64-66, 80
LastUpdatedAfterFetch(benchmark_entries_fetched) ==
    IF benchmark_entries_fetched = <<>> THEN benchmark_cache.last_updated
    ELSE utcnow

\* refresh_cache 64-80 when nothing raises: benchmark_cache after the fetch
\* returned; data and last_updated are assigned with no await between them
CacheAfterFetch(benchmark_entries_fetched) ==
    [data |-> DataAfterFetch(benchmark_entries_fetched),
     last_updated |-> LastUpdatedAfterFetch(benchmark_entries_fetched)]

\* an HTTP response: status code, detail of an error, body
Response(status, detail, body) == [status |-> status, detail |-> detail, body |-> body]
Unavailable == "Benchmark data is not available. Please try again later."
\* str(e) of the HTTPException raised at 142: empty or "status: detail",
\* depending on the version of the framework
HTTPExceptionStr == {"", "503: " \o Unavailable}
\* str(e) of an exception of the fetch, the aggregation or the close
ErrorStr == "error"
\* get_benchmarks 141-154 after the refresh, if any: the exceptions raised in
\* the try block, the HTTPException of 142 among them, reach `except Exception`
GetBenchmarksResponses(raised) ==
    IF raised THEN {Response(InternalServerError, "Internal server error: " \o ErrorStr, <<>>)}
    ELSE IF benchmark_cache.data = <<>>
    THEN {Response(InternalServerError, "Internal server error: " \o text, <<>>) :
             text \in HTTPExceptionStr}
    ELSE {Response(OK, "", benchmark_cache.data)}
\* get_cache_status
CacheStatus ==
    [cache_valid |-> is_cache_valid,
     last_updated |-> benchmark_cache.last_updated,
     ttl_minutes |-> ttl_minutes,
     has_data |-> benchmark_cache.data # <<>>,
     data_count |-> IF benchmark_cache.data # <<>> THEN Len(benchmark_cache.data[1].data) ELSE 0]

\* a coroutine of the service: what it serves, where it is suspended, whether
\* its request asked for a refresh, how its refresh_cache went, its response
Coroutine(kind, pc, force_refresh, outcome, response) ==
    [kind |-> kind, pc |-> pc, force_refresh |-> force_refresh,
     outcome |-> outcome, response |-> response]
Idle == Coroutine("idle", "idle", FALSE, "none", <<>>)
Startup == 0
Handlers == 1..MaxHandlers

----------------------------------------------------------------------------
(* Inputs: entry sequences the ingestion can hand to the engine *)

TC == "text-classification"
IC == "image-classification"

Acc(v, d) == EvaluationResult("accuracy", "accuracy", v, d)
F1(v, d) == EvaluationResult("f1", "f1", v, d)
Bleu(v, d) == EvaluationResult("bleu", "bleu", v, d)

\* general entries: two tasks, two datasets, a repeated model id, every kind
\* of parameter count and creation date, one to three results, no result
GenPool ==
    { BenchmarkEntry(ModelInfo("m1", "bert", NoCount, TC, 30),
                     <<Acc(1, "imdb"), F1(2, "imdb")>>),
      BenchmarkEntry(ModelInfo("m2", "gpt", 2000000, TC, 366),
                     <<Acc(1, "imdb"), F1(1, "imdb")>>),
      BenchmarkEntry(ModelInfo("m3", "bert", 0, TC, NoDate),
                     <<Acc(2, "imdb"), F1(2, "imdb"), Bleu(0, "imdb")>>),
      BenchmarkEntry(ModelInfo("m1", "bert", 1000000, TC, 400),
                     <<F1(2, "imdb"), Acc(1, "sst2")>>),
      BenchmarkEntry(ModelInfo("m4", "gpt", NoCount, IC, 30),
                     <<Acc(1, "imdb")>>),
      BenchmarkEntry(ModelInfo("m5", "gpt", 3000000, IC, 366), <<>>) }

\* ranking entries: one task, means 1, 2 and 1 (a tie between two models)
RankPool ==
    { BenchmarkEntry(ModelInfo("a", "bert", NoCount, TC, 30), <<Acc(1, "imdb")>>),
      BenchmarkEntry(ModelInfo("b", "bert", NoCount, TC, 30), <<Acc(2, "imdb")>>),
      BenchmarkEntry(ModelInfo("c", "gpt", NoCount, TC, 30),
                     <<Acc(0, "imdb"), F1(2, "imdb")>>) }

\* correlation entries: one task, one to three metric names per entry, a
\* metric name given twice
CorrPool ==
    { BenchmarkEntry(ModelInfo("p", "bert", NoCount, TC, 30),
                     <<Acc(0, "imdb"), F1(0, "imdb")>>),
      BenchmarkEntry(ModelInfo("q", "bert", NoCount, TC, 30),
                     <<Acc(1, "imdb"), Bleu(2, "imdb")>>),
      BenchmarkEntry(ModelInfo("r", "bert", NoCount, TC, 30),
                     <<Acc(2, "imdb"), F1(1, "imdb"), Bleu(0, "imdb")>>),
      BenchmarkEntry(ModelInfo("s", "bert", NoCount, TC, 30),
                     <<Acc(1, "imdb"), F1(2, "imdb")>>),
      BenchmarkEntry(ModelInfo("t", "bert", NoCount, TC, 30),
                     <<Acc(0, "imdb"), F1(1, "imdb"), Acc(2, "imdb")>>),
      BenchmarkEntry(ModelInfo("u", "bert", NoCount, TC, 30),
                     <<Acc(1, "imdb"), Acc(0, "imdb")>>) }

\* the entries of GenPool the whole engine is run on
EnginePool ==
    {e \in GenPool : e.model_info.model_id \in {"m1", "m3", "m4"}}

SeqsUpTo(pool, n) == UNION {[1..k -> pool] : k \in 0..n}
GenInputs == SeqsUpTo(GenPool, MaxEntries)
EngineInputs == SeqsUpTo(EnginePool, MaxEntries)
RankInputs == [1..RankLen -> RankPool]
CorrInputs == [1..CorrLen -> CorrPool]

Seeds == {0, 1}

\* n copies of s
RECURSIVE Repeat(_, _)
Repeat(s, n) ==
    IF n = 0 THEN ""
    ELSE LET half == Repeat(s, n \div 2)
         IN IF n % 2 = 0 THEN half \o half ELSE half \o half \o s

\* raw model records: identifiers, tags, pipeline labels and metric names
\* in mixed case, with keywords of several families, rungs and units, and a
\* number too large for a float
HugeNumber == "1" \o Repeat("0", MaxDigits)
ModelIds ==
    {"bert-base-uncased", "GPT-BERT-Large", "flan-t5-xxl", "Llama-2-70b-hf",
     "falcon-8.2B", "model-350m", "vit-tiny-1.5k", HugeNumber \o "b"}
TagPool == {"7b", "BERT-Mini"}
TagLists == SeqsUpTo(TagPool, MaxTags)
Labels ==
    {<<"text-classification", "f1">>, <<"image-classification", "F1">>,
     <<"fill-mask", "BLEU">>, <<"translation", "bleu">>,
     <<"summarization", "rouge1">>, <<"conversational", "spearman">>,
     <<"text-generation", "bertscore_f1">>}
ModelData(model_id, tags, label) ==
    [model_id |-> model_id, tags |-> tags, pipeline_tag |-> label[1], metric_name |-> label[2]]
\* the record "meta-llama/Llama-2-70b-hf" with its two tags
ExampleId == "meta-llama/Llama-2-70b-hf"
ExampleTags == <<"llama", "70b">>
ModelDataInputs ==
    {ModelData(model_id, tags, label) : model_id \in ModelIds, tags \in TagLists, label \in Labels}
        \cup {ModelData(ExampleId, ExampleTags, label) : label \in Labels}

\* raw records of the hub: a well-formed one, one whose createdAt does not
\* parse, one whose results hold an element that is no dict and a value that
\* is no number, one whose eval_results cannot be iterated, one that repeats
\* an id and has neither createdAt nor cardData, and one without an id
Number(v) == <<MetricValue(TRUE, v)>>
NotANumber == <<MetricValue(FALSE, 0)>>
CardData(iterable, results) == <<[iterable |-> iterable, results |-> results]>>
RawPool ==
    { RawModel("bert-a", "text-classification", <<Timestamp(TRUE, 30)>>,
               CardData(TRUE, <<RawResult(TRUE, <<"imdb">>,
                                          <<RawMetric("Accuracy", Number(9))>>)>>)),
      RawModel("gpt-b", "text-generation", <<Timestamp(FALSE, 0)>>, <<>>),
      RawModel("vit-c", "image-classification", <<Timestamp(TRUE, 366)>>,
               CardData(TRUE, <<RawResult(FALSE, <<>>, <<>>),
                                RawResult(TRUE, <<>>,
                                          <<RawMetric("F1", Number(8)),
                                            RawMetric("loss", <<>>),
                                            RawMetric("bleu", NotANumber),
                                            RawMetric("accuracy", Number(5))>>)>>)),
      RawModel("t5-d", "translation", <<Timestamp(TRUE, 30)>>, CardData(FALSE, <<>>)),
      RawModel("bert-a", "fill-mask", <<>>, <<>>),
      RawModel("", "summarization", <<Timestamp(FALSE, 0)>>, <<>>) }
RawInputs == SeqsUpTo(RawPool, MaxModels)
\* what fetch_benchmark_data hands to refresh_cache: no entry, or one of two
\* lists of one entry
FetchResults ==
    {<<>>,
     <<BenchmarkEntry(ModelInfo("m4", "gpt", NoCount, IC, 30), <<Acc(1, "imdb")>>)>>,
     <<BenchmarkEntry(ModelInfo("m1", "bert", NoCount, TC, 30), <<F1(2, "sst2")>>)>>}
\* the draws of np.random.uniform, in tenths
SyntheticValues == {7, 8}
\* what fetch_real_benchmark_data returns: nothing, or one entry
RealBenchmarks ==
    {<<>>, <<BenchmarkEntry(ModelInfo("gpt-b", "gpt", NoCount, "text-generation", 366),
                            <<Acc(6, "open_llm_leaderboard")>>)>>}

----------------------------------------------------------------------------
(* The state machine *)

InitOver(inputs, seeds) ==
    /\ benchmark_entries \in inputs
    /\ hashSeed \in seeds
    /\ now = Now0
    /\ summary = <<>>
    /\ correlations = <<>>
    /\ leaderboards = <<>>
    /\ model_data = NoModelData
    /\ classified = <<>>
    /\ models = <<>>
    /\ fetched = <<>>
    /\ benchmark_cache = EmptyCache
    /\ requests = <<>>
    /\ utcnow = 0

ComputeSummaryInPlace ==
    /\ summary' = <<compute_summary_statistics(benchmark_entries)>>
    /\ benchmark_entries' = [i \in DOMAIN benchmark_entries |->
                                benchmark_entries[Len(benchmark_entries) + 1 - i]]
    /\ UNCHANGED <<now, hashSeed, correlations, leaderboards, model_data, classified,
                   models, fetched, benchmark_cache, requests, utcnow>>

\* summary = fetcher.compute_summary_statistics(benchmark_entries)
ComputeSummary ==
    /\ summary' = <<compute_summary_statistics(benchmark_entries)>>
    /\ UNCHANGED <<benchmark_entries, now, hashSeed, correlations, leaderboards,
                   model_data, classified,
                   models, fetched, benchmark_cache, requests, utcnow>>

\* correlations = fetcher.compute_correlation_matrices(benchmark_entries)
ComputeCorrelations ==
    /\ correlations' = <<compute_correlation_matrices(benchmark_entries)>>
    /\ UNCHANGED <<benchmark_entries, now, hashSeed, summary, leaderboards,
                   model_data, classified,
                   models, fetched, benchmark_cache, requests, utcnow>>

\* leaderboards = fetcher.generate_leaderboards(benchmark_entries)
GenerateLeaderboards ==
    /\ leaderboards' = <<generate_leaderboards(benchmark_entries)>>
    /\ UNCHANGED <<benchmark_entries, now, hashSeed, summary, correlations,
                   model_data, classified,
                   models, fetched, benchmark_cache, requests, utcnow>>

\* time passes between two calls
Tick ==
    /\ now < Now0 + MaxTicks
    /\ now' = now + 1
    /\ UNCHANGED <<benchmark_entries, hashSeed, summary, correlations, leaderboards,
                   model_data, classified,
                   models, fetched, benchmark_cache, requests, utcnow>>

\* the outcome of one classifier call; the classifiers are pure and a raw
\* record is classified once (444-447)
Outcome(function, result) == <<[function |-> function, result |-> result]>>

\* model_family = self._extract_model_family(model_id, tags)
ExtractModelFamily ==
    /\ classified = <<>>
    /\ classified' = Outcome("_extract_model_family",
                             _extract_model_family(model_data.model_id, model_data.tags))
    /\ UNCHANGED <<benchmark_entries, now, hashSeed, summary, correlations, leaderboards,
                   model_data, models, fetched, benchmark_cache, requests, utcnow>>

\* model_size = self._extract_model_size(model_id, tags)
ExtractModelSize ==
    /\ classified = <<>>
    /\ classified' = Outcome("_extract_model_size",
                             _extract_model_size(model_data.model_id, model_data.tags))
    /\ UNCHANGED <<benchmark_entries, now, hashSeed, summary, correlations, leaderboards,
                   model_data, models, fetched, benchmark_cache, requests, utcnow>>

\* parameter_count = self._extract_parameter_count(model_id, tags)
ExtractParameterCount ==
    /\ classified = <<>>
    /\ classified' = Outcome("_extract_parameter_count",
                             _extract_parameter_count(model_data.model_id, model_data.tags))
    /\ UNCHANGED <<benchmark_entries, now, hashSeed, summary, correlations, leaderboards,
                   model_data, models, fetched, benchmark_cache, requests, utcnow>>

\* task_type = self._map_pipeline_to_task(pipeline_tag)
MapPipelineToTask ==
    /\ classified = <<>>
    /\ classified' = Outcome("_map_pipeline_to_task",
                             _map_pipeline_to_task(model_data.pipeline_tag))
    /\ UNCHANGED <<benchmark_entries, now, hashSeed, summary, correlations, leaderboards,
                   model_data, models, fetched, benchmark_cache, requests, utcnow>>

\* metric_type = self._map_metric_name(metric_name), called on the name itself
MapMetricName ==
    /\ classified = <<>>
    /\ classified' = Outcome("_map_metric_name", _map_metric_name(model_data.metric_name))
    /\ UNCHANGED <<benchmark_entries, now, hashSeed, summary, correlations, leaderboards,
                   model_data, models, fetched, benchmark_cache, requests, utcnow>>

\* _parse_eval_results: metric_name = metric.get('name', '').lower(), then
\* metric_type = self._map_metric_name(metric_name)
ParseEvalResults ==
    /\ classified = <<>>
    /\ classified' = Outcome("_parse_eval_results",
                             _map_metric_name(Lower(model_data.metric_name)))
    /\ UNCHANGED <<benchmark_entries, now, hashSeed, summary, correlations, leaderboards,
                   model_data, models, fetched, benchmark_cache, requests, utcnow>>

\* the engine: the three methods called in any order, any number of times
Init == InitOver(EngineInputs, Seeds)
Next == ComputeSummary \/ ComputeCorrelations \/ GenerateLeaderboards \/ Tick
Spec == Init /\ [][Next]_vars

\* compute_summary_statistics alone
InitSummary == InitOver(GenInputs \cup RankInputs, {0})
NextSummary == ComputeSummary \/ Tick
SpecSummary == InitSummary /\ [][NextSummary]_vars

\* compute_correlation_matrices alone
InitCorrelations == InitOver(GenInputs \cup CorrInputs, {0})
NextCorrelations == ComputeCorrelations \/ Tick
SpecCorrelations == InitCorrelations /\ [][NextCorrelations]_vars

\* the three methods on inputs with entries that carry no result, at one instant
InitAggregates == InitOver(GenInputs, {0})
NextAggregates == ComputeSummary \/ ComputeCorrelations \/ GenerateLeaderboards
SpecAggregates == InitAggregates /\ [][NextAggregates]_vars

\* generate_leaderboards alone
InitLeaderboards == InitOver(GenInputs, {0})
NextLeaderboards == GenerateLeaderboards \/ Tick
SpecLeaderboards == InitLeaderboards /\ [][NextLeaderboards]_vars

\* one call of fetch_benchmark_data on the records the hub returns
FetchBenchmarkData ==
    /\ fetched = <<>>
    /\ \E value \in SyntheticValues, real_benchmarks \in RealBenchmarks :
           fetched' = <<fetch_benchmark_data(models, real_benchmarks, value)>>
    /\ UNCHANGED <<benchmark_entries, now, hashSeed, summary, correlations, leaderboards,
                   model_data, classified, models, benchmark_cache, requests, utcnow>>

\* the classifiers applied to one raw model record
InitClassify ==
    /\ benchmark_entries = <<>>
    /\ hashSeed = 0
    /\ now = Now0
    /\ summary = <<>>
    /\ correlations = <<>>
    /\ leaderboards = <<>>
    /\ model_data \in ModelDataInputs
    /\ classified = <<>>
    /\ models = <<>>
    /\ fetched = <<>>
    /\ benchmark_cache = EmptyCache
    /\ requests = <<>>
    /\ utcnow = 0
NextClassify ==
    \/ ExtractModelFamily
    \/ ExtractModelSize
    \/ ExtractParameterCount
    \/ MapPipelineToTask
    \/ MapMetricName
    \/ ParseEvalResults
SpecClassify == InitClassify /\ [][NextClassify]_vars

Engine == <<benchmark_entries, now, hashSeed, summary, correlations, leaderboards,
            model_data, classified, models, fetched>>

\* refresh_cache up to its first suspension, `await fetcher.fetch_benchmark_data`
Fetching(c) == [c EXCEPT !.pc = "fetching", !.outcome = "none"]
\* a handler that has sent its response, after a refresh_cache that raised
\* or not
Done(c, response, raised) ==
    [c EXCEPT !.pc = "done", !.outcome = IF raised THEN "raised" ELSE "none",
              !.response = <<response>>]
\* refresh_cache at its second suspension, the close of the fetcher;
\* force_refresh was read at 138 and is dead from here on
Closing(c, outcome) == [c EXCEPT !.pc = "closing", !.force_refresh = FALSE, !.outcome = outcome]
Free(p) == requests[p].pc \in {"idle", "done"} /\ requests[Startup].pc = "done"

\* startup_event begins: await refresh_cache()
StartupEvent ==
    /\ requests[Startup].pc = "start"
    /\ requests' = [requests EXCEPT ![Startup] = Fetching(@)]
    /\ UNCHANGED <<benchmark_cache, utcnow>>
    /\ UNCHANGED Engine

\* GET /api/benchmarks arrives: get_benchmarks up to its first suspension, or
\* to its end when it does not refresh
GetBenchmarks(p) ==
    /\ Free(p)
    /\ \E force_refresh \in BOOLEAN :
          LET c == Coroutine("get", "start", force_refresh, "none", <<>>)
          IN IF force_refresh \/ ~is_cache_valid
             THEN requests' = [requests EXCEPT ![p] = Fetching(c)]
             ELSE \E response \in GetBenchmarksResponses(FALSE) :
                     requests' = [requests EXCEPT ![p] = Done(c, response, FALSE)]
    /\ UNCHANGED <<benchmark_cache, utcnow>>
    /\ UNCHANGED Engine

\* POST /api/refresh arrives: refresh_benchmarks responds and its background
\* task runs refresh_cache up to its first suspension
RefreshBenchmarks(p) ==
    /\ Free(p)
    /\ requests' = [requests EXCEPT ![p] =
           Fetching(Coroutine("refresh", "start", FALSE, "none",
                              <<Response(OK, "Benchmark data refresh started", <<>>)>>))]
    /\ UNCHANGED <<benchmark_cache, utcnow>>
    /\ UNCHANGED Engine

\* GET /api/cache-status arrives: get_cache_status, which never suspends
GetCacheStatus(p) ==
    /\ Free(p)
    /\ requests' = [requests EXCEPT ![p] =
           Done(Coroutine("status", "start", FALSE, "none", <<>>),
                Response(OK, "", <<CacheStatus>>), FALSE)]
    /\ UNCHANGED <<benchmark_cache, utcnow>>
    /\ UNCHANGED Engine

\* fetch_benchmark_data returns to refresh_cache, which runs to its next
\* suspension, the close of the fetcher: no entries (64-66) or the
\* aggregation and the cache update (69-80)
FetchReturns(p) ==
    /\ requests[p].pc = "fetching"
    /\ \E benchmark_entries_fetched \in FetchResults :
          /\ requests' = [requests EXCEPT ![p] =
                 Closing(@, IF benchmark_entries_fetched = <<>> THEN "empty" ELSE "updated")]
          /\ benchmark_cache' = CacheAfterFetch(benchmark_entries_fetched)
    /\ UNCHANGED utcnow
    /\ UNCHANGED Engine

\* fetch_benchmark_data raises, or it returns entries and the aggregation or
\* the construction of the response raises (62-79): the exception leaves the
\* `async with` before any assignment to the cache
RefreshRaises(p) ==
    /\ requests[p].pc = "fetching"
    /\ requests' = [requests EXCEPT ![p] = Closing(@, "raised")]
    /\ UNCHANGED <<benchmark_cache, utcnow>>
    /\ UNCHANGED Engine

\* the fetcher is closed and refresh_cache ends, by a return or an exception
\* (its own or one of the close); its caller goes on: startup_event swallows
\* the exception, get_benchmarks answers, a background task ends
Close(p) ==
    /\ requests[p].pc = "closing"
    /\ \E raises \in BOOLEAN :
          LET raised == raises \/ requests[p].outcome = "raised"
          IN IF requests[p].kind = "get"
             THEN \E response \in GetBenchmarksResponses(raised) :
                     requests' = [requests EXCEPT ![p] = Done(@, response, raised)]
             ELSE requests' = [requests EXCEPT ![p].pc = "done", ![p].outcome = "none"]
    /\ UNCHANGED <<benchmark_cache, utcnow>>
    /\ UNCHANGED Engine

\* time passes: one minute less than the time to live, or the time to live
AdvanceClock ==
    /\ \E minutes \in {ttl_minutes - 1, ttl_minutes} :
          /\ utcnow + minutes <= MaxMinutes
          /\ utcnow' = utcnow + minutes
    /\ UNCHANGED <<benchmark_cache, requests>>
    /\ UNCHANGED Engine

\* the service: startup, then requests served by MaxHandlers coroutines
InitService ==
    /\ benchmark_entries = <<>>
    /\ hashSeed = 0
    /\ now = Now0
    /\ summary = <<>>
    /\ correlations = <<>>
    /\ leaderboards = <<>>
    /\ model_data = NoModelData
    /\ classified = <<>>
    /\ models = <<>>
    /\ fetched = <<>>
    /\ benchmark_cache = EmptyCache
    /\ requests = [p \in {Startup} \cup Handlers |->
                      IF p = Startup THEN Coroutine("startup", "start", FALSE, "none", <<>>)
                      ELSE Idle]
    /\ utcnow = 0
NextService ==
    \/ StartupEvent
    \/ AdvanceClock
    \/ \E p \in Handlers : GetBenchmarks(p)
    \/ \E p \in Handlers : RefreshBenchmarks(p)
    \/ \E p \in Handlers : GetCacheStatus(p)
    \/ \E p \in {Startup} \cup Handlers : FetchReturns(p)
    \/ \E p \in {Startup} \cup Handlers : RefreshRaises(p)
    \/ \E p \in {Startup} \cup Handlers : Close(p)
SpecService == InitService /\ [][NextService]_vars

\* fetch_benchmark_data applied to one batch of raw records
InitIngest ==
    /\ benchmark_entries = <<>>
    /\ hashSeed = 0
    /\ now = Now0
    /\ summary = <<>>
    /\ correlations = <<>>
    /\ leaderboards = <<>>
    /\ model_data = NoModelData
    /\ classified = <<>>
    /\ models \in RawInputs
    /\ fetched = <<>>
    /\ benchmark_cache = EmptyCache
    /\ requests = <<>>
    /\ utcnow = 0
NextIngest == FetchBenchmarkData
SpecIngest == InitIngest /\ [][NextIngest]_vars

----------------------------------------------------------------------------
(* Claims about compute_summary_statistics (SpecSummary) *)

TaskStats == summary[1].task_stats
EntriesOfTask(task) ==
    {i \in DOMAIN benchmark_entries : benchmark_entries[i].model_info.task_type = task}

\* C1: for a non-empty entry sequence the summary holds exactly one TaskStats
\* per task type that occurs in the input, none for a task type that does not
\* occur and none twice, and each model_count is the number of input entries
\* of that task type.
C1_TaskStatsPartition ==
    (benchmark_entries # <<>> /\ summary # <<>>) =>
        /\ {TaskStats[k].task_type : k \in DOMAIN TaskStats}
              = {benchmark_entries[i].model_info.task_type : i \in DOMAIN benchmark_entries}
        /\ \A j, k \in DOMAIN TaskStats :
              TaskStats[j].task_type = TaskStats[k].task_type => j = k
        /\ \A k \in DOMAIN TaskStats :
              TaskStats[k].model_count = Cardinality(EntriesOfTask(TaskStats[k].task_type))

\* two task types, one of them with two entries that carry several results
C1_Witness ==
    /\ summary # <<>>
    /\ Len(TaskStats) = 2
    /\ \E k \in DOMAIN TaskStats :
          /\ TaskStats[k].model_count = 2
          /\ \A i \in EntriesOfTask(TaskStats[k].task_type) :
                Len(benchmark_entries[i].evaluation_results) >= 2

\* the entries of a task that have a mean: those with at least one result
ScoredOfTask(task) ==
    {i \in EntriesOfTask(task) : benchmark_entries[i].evaluation_results # <<>>}
EntryMean(i) ==
    LET rs == benchmark_entries[i].evaluation_results
    IN Frac(SeqSum([j \in DOMAIN rs |-> rs[j].value]), Len(rs))
\* the place of entry i among the scored entries of its task: behind every
\* entry with a higher mean and every earlier entry with an equal mean
PlaceInTask(task, i) ==
    1 + Cardinality({j \in ScoredOfTask(task) :
            \/ FracGT(EntryMean(j), EntryMean(i))
            \/ FracEQ(EntryMean(j), EntryMean(i)) /\ j < i})

\* C10: top_models of a task is the list of at most 5 model ids of the task's
\* entries with the highest per-entry mean value, in descending order of the
\* mean, entries with equal means in their input order.
C10_TopModelsStable ==
    summary # <<>> =>
        \A k \in DOMAIN TaskStats :
            LET task == TaskStats[k].task_type
                top == TaskStats[k].top_models
                n == Cardinality(ScoredOfTask(task))
            IN /\ Len(top) = IF n < TopModels THEN n ELSE TopModels
               /\ \A i \in ScoredOfTask(task) :
                     PlaceInTask(task, i) <= TopModels =>
                        top[PlaceInTask(task, i)] = benchmark_entries[i].model_info.model_id

\* more than 5 scored entries, two models with equal means on either side of
\* the cut (the earlier one is the fifth, the later one is left out), and a
\* later entry with a higher mean that the sort moved in front of them
C10_Witness ==
    /\ summary # <<>>
    /\ \E k \in DOMAIN TaskStats :
          LET task == TaskStats[k].task_type
          IN \E i, j \in ScoredOfTask(task) :
                /\ i < j
                /\ FracEQ(EntryMean(i), EntryMean(j))
                /\ benchmark_entries[i].model_info.model_id
                      # benchmark_entries[j].model_info.model_id
                /\ PlaceInTask(task, i) = TopModels
                /\ PlaceInTask(task, j) = TopModels + 1
                /\ \E h \in ScoredOfTask(task) :
                      h > i /\ FracGT(EntryMean(h), EntryMean(i))

----------------------------------------------------------------------------
(* Claims about generate_leaderboards (SpecLeaderboards) *)

Leaderboards == leaderboards[1]
AllTasks == {TC, IC}
AllDatasets == {"imdb", "sst2"}

\* the positions <<i, j>> of the (entry, result) pairs of a (task, dataset) group
GroupOf(task, dataset) ==
    UNION {{<<i, j>> : j \in {j \in DOMAIN benchmark_entries[i].evaluation_results :
                         benchmark_entries[i].evaluation_results[j].dataset_name = dataset}} :
           i \in EntriesOfTask(task)}
PairInfo(p) == benchmark_entries[p[1]].model_info
PairResult(p) == benchmark_entries[p[1]].evaluation_results[p[2]]
Before(p, q) == p[1] < q[1] \/ (p[1] = q[1] /\ p[2] < q[2])
\* the positions of a group that belong to one model id
ModelPairs(group, id) == {p \in group : PairInfo(p).model_id = id}
\* the first position, in input order, at which a model reaches its highest value
BestPair(group, id) ==
    CHOOSE p \in ModelPairs(group, id) :
        \A q \in ModelPairs(group, id) :
            \/ PairResult(p).value > PairResult(q).value
            \/ PairResult(p).value = PairResult(q).value /\ (p = q \/ Before(p, q))

\* C2: in every leaderboard the ranks are 1, 2, ..., len(entries) in list
\* order, the primary values do not increase with the rank, and no two
\* entries have the same model id.
C2_RankedLeaderboards ==
    leaderboards # <<>> =>
        \A b \in DOMAIN Leaderboards :
            LET es == Leaderboards[b].entries
            IN /\ \A k \in DOMAIN es : es[k].rank = k
               /\ \A k \in DOMAIN es :
                     k < Len(es) => es[k].primary_metric.value >= es[k + 1].primary_metric.value
               /\ \A j, k \in DOMAIN es :
                     es[j].model_info.model_id = es[k].model_info.model_id => j = k

\* a leaderboard whose best model is not the first model of its group, with a
\* strictly lower second value, from a group in which a model id occurs in two
\* entries
C2_Witness ==
    /\ leaderboards # <<>>
    /\ \E b \in DOMAIN Leaderboards :
          LET es == Leaderboards[b].entries
              group == GroupOf(Leaderboards[b].task_type, Leaderboards[b].dataset_name)
          IN /\ Len(es) >= 2
             /\ es[1].primary_metric.value > es[2].primary_metric.value
             /\ \E p \in group :
                   /\ \A q \in group : p = q \/ Before(p, q)
                   /\ PairInfo(p).model_id # es[1].model_info.model_id
             /\ \E p, q \in group :
                   p[1] # q[1] /\ PairInfo(p).model_id = PairInfo(q).model_id

\* C6: efficiency_score is present exactly when the model's parameter count
\* is known and greater than zero, and is then
\* primary_metric.value / (parameter_count / 1,000,000).
C6_EfficiencyScore ==
    leaderboards # <<>> =>
        \A b \in DOMAIN Leaderboards :
            \A k \in DOMAIN Leaderboards[b].entries :
                LET e == Leaderboards[b].entries[k]
                    count == e.model_info.parameter_count
                IN /\ (e.efficiency_score # <<>>) <=> (count # NoCount /\ count > 0)
                   /\ e.efficiency_score # <<>> =>
                         e.efficiency_score[1] =
                            Frac(e.primary_metric.value * PerMillion, count)

\* one leaderboard with a model of unknown count, one of count 0 and one of a
\* positive count
C6_Witness ==
    /\ leaderboards # <<>>
    /\ \E b \in DOMAIN Leaderboards :
          LET es == Leaderboards[b].entries
          IN /\ \E k \in DOMAIN es : es[k].model_info.parameter_count = NoCount
             /\ \E k \in DOMAIN es : es[k].model_info.parameter_count = 0
             /\ \E k \in DOMAIN es :
                   /\ es[k].model_info.parameter_count > 0
                   /\ es[k].efficiency_score # <<>>
                   /\ es[k].primary_metric.value > 0

\* C7: a (task type, dataset) pair has a leaderboard exactly when its group
\* holds at least 5 (entry, result) pairs, and never more than one.
C7_LeaderboardThreshold ==
    leaderboards # <<>> =>
        \A task \in AllTasks : \A dataset \in AllDatasets :
            Cardinality({b \in DOMAIN Leaderboards :
                            /\ Leaderboards[b].task_type = task
                            /\ Leaderboards[b].dataset_name = dataset})
              = IF Cardinality(GroupOf(task, dataset)) >= 5 THEN 1 ELSE 0

\* a group of exactly 5 pairs with its leaderboard, next to a group of 1 to 4
\* pairs without one
C7_Witness ==
    /\ leaderboards # <<>>
    /\ Len(Leaderboards) = 1
    /\ Cardinality(GroupOf(Leaderboards[1].task_type, Leaderboards[1].dataset_name)) = 5
    /\ \E task \in AllTasks : \E dataset \in AllDatasets :
          Cardinality(GroupOf(task, dataset)) \in 1..4

\* C8: the secondary metrics of a leaderboard entry are exactly the results
\* the entry's own model has in the group, the primary result excepted, and
\* never a result of another model of the group.
C8_SecondaryOwnModel ==
    leaderboards # <<>> =>
        \A b \in DOMAIN Leaderboards :
            LET group == GroupOf(Leaderboards[b].task_type, Leaderboards[b].dataset_name)
            IN \A k \in DOMAIN Leaderboards[b].entries :
                  LET e == Leaderboards[b].entries[k]
                      own == ModelPairs(group, e.model_info.model_id)
                  IN /\ Len(e.secondary_metrics) = Cardinality(own) - 1
                     /\ \A r \in Range(e.secondary_metrics) :
                           \E p \in own : PairResult(p) = r

\* C9: a qualifying group keeps one pair per model id: the model's pair with
\* the highest value, and among several pairs with that value the first one
\* in input order.
C9_KeepsFirstBest ==
    leaderboards # <<>> =>
        \A b \in DOMAIN Leaderboards :
            LET es == Leaderboards[b].entries
                group == GroupOf(Leaderboards[b].task_type, Leaderboards[b].dataset_name)
                ids == {PairInfo(p).model_id : p \in group}
            IN /\ Len(es) = IF Cardinality(ids) < TopEntries THEN Cardinality(ids)
                            ELSE TopEntries
               /\ Cardinality(ids) <= TopEntries =>
                     {es[k].model_info.model_id : k \in DOMAIN es} = ids
               /\ \A k \in DOMAIN es :
                     LET p == BestPair(group, es[k].model_info.model_id)
                     IN /\ es[k].model_info = PairInfo(p)
                        /\ es[k].primary_metric = PairResult(p)

\* a model reaches its highest value in two entries that differ, and in two
\* results of one entry
C9_Witness ==
    /\ leaderboards # <<>>
    /\ \E b \in DOMAIN Leaderboards :
          LET group == GroupOf(Leaderboards[b].task_type, Leaderboards[b].dataset_name)
              tied(p, q) ==
                  /\ PairInfo(p).model_id = PairInfo(q).model_id
                  /\ PairResult(p).value = PairResult(q).value
                  /\ PairResult(p) = PairResult(BestPair(group, PairInfo(p).model_id))
                  /\ Before(p, q)
          IN /\ \E p, q \in group :
                   tied(p, q) /\ p[1] # q[1] /\ PairInfo(p) # PairInfo(q)
             /\ \E p, q \in group :
                   tied(p, q) /\ p[1] = q[1] /\ PairResult(p) # PairResult(q)

----------------------------------------------------------------------------
(* Claims about compute_correlation_matrices (SpecCorrelations) *)

Matrices == correlations[1]
AllMetricNames == {"accuracy", "f1", "bleu"}

MetricNamesOf(i) ==
    {benchmark_entries[i].evaluation_results[j].metric_name :
        j \in DOMAIN benchmark_entries[i].evaluation_results}
\* how many values a metric has recorded for a task: one per entry of the
\* task that carries the metric and at least two distinct metric names
RecordedCount(task, name) ==
    Cardinality({i \in EntriesOfTask(task) :
        Cardinality(MetricNamesOf(i)) >= 2 /\ name \in MetricNamesOf(i)})
QualifyingNames(task) == {name \in AllMetricNames : RecordedCount(task, name) >= 3}

\* C3: every correlation matrix is square with side len(metrics), has 1.0 at
\* every diagonal position and is symmetric.
C3_SquareSymmetric ==
    correlations # <<>> =>
        \A m \in DOMAIN Matrices :
            LET n == Len(Matrices[m].metrics)
                M == Matrices[m].correlation_matrix
            IN /\ Len(M) = n
               /\ \A i \in 1..n : Len(M[i]) = n /\ M[i][i] = Thousandths
               /\ \A i, j \in 1..n : M[i][j] = M[j][i]

\* a matrix with a coefficient strictly between 0 and 1 in size, computed
\* from two value lists of unequal length
C3_Witness ==
    /\ correlations # <<>>
    /\ \E m \in DOMAIN Matrices :
          LET names == Matrices[m].metrics
              M == Matrices[m].correlation_matrix
              task == Matrices[m].task_type
          IN \E i, j \in DOMAIN names :
                /\ i # j
                /\ M[i][j] \notin {0, Thousandths, 0 - Thousandths}
                /\ RecordedCount(task, names[i]) # RecordedCount(task, names[j])

\* C4: a task has a matrix exactly when at least two metric names have at
\* least 3 recorded values, never more than one matrix, and the matrix's
\* metrics are exactly the metric names with at least 3 recorded values.
C4_QualifyingTasks ==
    correlations # <<>> =>
        /\ \A task \in AllTasks :
              Cardinality({m \in DOMAIN Matrices : Matrices[m].task_type = task})
                = IF Cardinality(QualifyingNames(task)) >= 2 THEN 1 ELSE 0
        /\ \A m \in DOMAIN Matrices :
              /\ Range(Matrices[m].metrics) = QualifyingNames(Matrices[m].task_type)
              /\ Len(Matrices[m].metrics)
                    = Cardinality(QualifyingNames(Matrices[m].task_type))

\* a matrix for a task in which a third metric has too few recorded values
\* and an entry with two results of one metric name is not recorded
C4_Witness ==
    /\ correlations # <<>>
    /\ \E m \in DOMAIN Matrices :
          LET task == Matrices[m].task_type
          IN /\ \E name \in AllMetricNames : RecordedCount(task, name) \in 1..2
             /\ \E i \in EntriesOfTask(task) :
                   /\ Len(benchmark_entries[i].evaluation_results) >= 2
                   /\ Cardinality(MetricNamesOf(i)) = 1

----------------------------------------------------------------------------
(* Claims about the whole engine (Spec) *)

\* the fields of a BenchmarkSummary that carry no clock reading
SummaryFixed(s) ==
    [total_models |-> s.total_models, total_datasets |-> s.total_datasets,
     task_stats |-> s.task_stats, dataset_stats |-> s.dataset_stats,
     model_family_stats |-> s.model_family_stats]
\* the fields of the leaderboards that carry no clock reading
LeaderboardsFixed(l) ==
    [b \in DOMAIN l |->
        [task_type |-> l[b].task_type, dataset_name |-> l[b].dataset_name,
         metric_name |-> l[b].metric_name, entries |-> l[b].entries]]
LeaderboardStamps(l) == [b \in DOMAIN l |-> l[b].last_updated]

\* C5 as stated: a second call of an engine method on the same entry sequence
\* returns a value identical in every field, timestamps and trend dates
\* included.
C5_Idempotent ==
    [][ /\ (summary # <<>> /\ summary' # <<>>) => summary' = summary
        /\ (correlations # <<>> /\ correlations' # <<>>) => correlations' = correlations
        /\ (leaderboards # <<>> /\ leaderboards' # <<>>) => leaderboards' = leaderboards
      ]_vars

\* C5 amended: a second call on the same entry sequence returns a value
\* identical in every field but last_updated and trend_data, which depend on
\* the clock read by the call; with the same clock reading they agree too.
C5_IdempotentButClock ==
    [][ /\ (summary # <<>> /\ summary' # <<>>) =>
              /\ SummaryFixed(summary'[1]) = SummaryFixed(summary[1])
              /\ summary'[1].last_updated = summary[1].last_updated => summary' = summary
        /\ (correlations # <<>> /\ correlations' # <<>>) => correlations' = correlations
        /\ (leaderboards # <<>> /\ leaderboards' # <<>>) =>
              /\ LeaderboardsFixed(leaderboards'[1]) = LeaderboardsFixed(leaderboards[1])
              /\ LeaderboardStamps(leaderboards'[1]) = LeaderboardStamps(leaderboards[1])
                    => leaderboards' = leaderboards
      ]_vars

\* every method has returned, on an input with two datasets, a leaderboard, a
\* matrix and trend points, and the clock has moved on since: the next call
\* of each method is a second call at a later instant
C5_Witness ==
    /\ summary # <<>> /\ correlations # <<>> /\ leaderboards # <<>>
    /\ summary[1].total_datasets = 2
    /\ summary[1].trend_data # <<>>
    /\ summary[1].last_updated < now
    /\ Matrices # <<>>
    /\ Leaderboards # <<>>
    /\ Leaderboards[1].last_updated < now

----------------------------------------------------------------------------
(* Claims about the family statistics and the trend series (SpecSummary) *)

FamilyStats == summary[1].model_family_stats
EntriesOfFamily(family) ==
    SelectSeq(benchmark_entries, LAMBDA e : e.model_info.model_family = family)
AllFamilies ==
    {benchmark_entries[i].model_info.model_family : i \in DOMAIN benchmark_entries}

\* C11: for each model family present in the input there is a
\* ModelFamilyStats whose model_count is the number of entries of that
\* family, however many evaluation results each entry carries.
C11_FamilyModelCount ==
    summary # <<>> =>
        \A family \in AllFamilies :
            \E k \in DOMAIN FamilyStats :
                /\ FamilyStats[k].family = family
                /\ FamilyStats[k].model_count = Len(EntriesOfFamily(family))

\* the parameter counts of a family's entries that are known, 0 included
KnownCounts(family) ==
    LET known == SelectSeq(EntriesOfFamily(family),
                    LAMBDA e : e.model_info.parameter_count # NoCount)
    IN [i \in DOMAIN known |-> known[i].model_info.parameter_count]

\* C12: avg_parameter_count of a family is the arithmetic mean of
\* parameter_count over the family's entries whose count is known, a known
\* count of 0 included, and it is absent only when no entry of the family
\* has a known count.
C12_AvgParameterCount ==
    summary # <<>> =>
        \A k \in DOMAIN FamilyStats :
            LET counts == KnownCounts(FamilyStats[k].family)
                avg == FamilyStats[k].avg_parameter_count
            IN IF counts = <<>> THEN avg = <<>>
               ELSE /\ Len(avg) = 1
                    /\ FracEQ(avg[1], Frac(SeqSum(counts), Len(counts)))

Trend == summary[1].trend_data
Checkpoint(month) == (summary[1].last_updated - TrendDays) + MonthDays * month
\* the entries of a task with a known created_at no later than the checkpoint
Cohort(task, month) ==
    {i \in EntriesOfTask(task) :
        /\ benchmark_entries[i].model_info.created_at # NoDate
        /\ benchmark_entries[i].model_info.created_at <= Checkpoint(month)}
\* the values a cohort has for a metric name, as <<entry, result, value>>
CohortValues(task, month, name) ==
    UNION {{<<i, j, benchmark_entries[i].evaluation_results[j].value>> :
              j \in {h \in DOMAIN benchmark_entries[i].evaluation_results :
                        benchmark_entries[i].evaluation_results[h].metric_name = name}} :
           i \in Cohort(task, month)}
CohortNames(task, month) ==
    {name \in AllMetricNames : CohortValues(task, month, name) # {}}
PointsAt(task, month) ==
    {k \in DOMAIN Trend :
        Trend[k].task_type = task /\ Trend[k].date = Checkpoint(month)}
RECURSIVE SetSum(_)
SetSum(S) ==
    IF S = {} THEN 0 ELSE LET x == CHOOSE y \in S : TRUE IN x[3] + SetSum(S \ {x})
\* one TrendPoint per metric name of the cohort, with the cohort's mean,
\* maximum and size
PointsDescribeCohort(task, month) ==
    /\ \A name \in CohortNames(task, month) :
          \E k \in PointsAt(task, month) :
              /\ Trend[k].metric_name = name
              /\ \A h \in PointsAt(task, month) : Trend[h].metric_name = name => h = k
    /\ \A k \in PointsAt(task, month) :
          LET values == CohortValues(task, month, Trend[k].metric_name)
          IN /\ values # {}
             /\ FracEQ(Trend[k].avg_value, Frac(SetSum(values), Cardinality(values)))
             /\ \E v \in values : Trend[k].best_value = v[3]
             /\ \A v \in values : Trend[k].best_value >= v[3]
             /\ Trend[k].model_count = Cardinality(Cohort(task, month))

----------------------------------------------------------------------------
(* Claims about empty collections (SpecAggregates) *)

DatasetStatsOut == summary[1].dataset_stats
\* every mean of a mapping was taken over at least one value
MeansDefined(d) == \A k \in DOMAIN d : d[k][2].den > 0
KeySet(d) == {d[k][1] : k \in DOMAIN d}
\* the metric names that have a value among the results that satisfy Keep
NamesWith(Keep(_, _)) ==
    {name \in AllMetricNames :
        \E i \in DOMAIN benchmark_entries :
            \E j \in DOMAIN benchmark_entries[i].evaluation_results :
                /\ benchmark_entries[i].evaluation_results[j].metric_name = name
                /\ Keep(benchmark_entries[i], benchmark_entries[i].evaluation_results[j])}

\* C14: no aggregate is computed over an empty collection. Every method
\* returns for the empty sequence and for sequences with entries that carry
\* no result: every mean in the outputs has at least one value under it, an
\* efficiency score divides by a positive count, and the keys of every
\* metric mapping are exactly the metric names that have a value.
C14_NoEmptyAggregate ==
    /\ summary # <<>> =>
          /\ summary[1].total_models = Len(benchmark_entries)
          /\ \A k \in DOMAIN TaskStats :
                /\ MeansDefined(TaskStats[k].avg_metrics)
                /\ KeySet(TaskStats[k].avg_metrics)
                      = NamesWith(LAMBDA e, r : e.model_info.task_type = TaskStats[k].task_type)
          /\ \A k \in DOMAIN DatasetStatsOut :
                /\ MeansDefined(DatasetStatsOut[k].avg_performance)
                /\ KeySet(DatasetStatsOut[k].avg_performance)
                      = NamesWith(LAMBDA e, r : r.dataset_name = DatasetStatsOut[k].dataset_name)
                /\ KeySet(DatasetStatsOut[k].best_performance)
                      = KeySet(DatasetStatsOut[k].avg_performance)
                /\ KeySet(DatasetStatsOut[k].worst_performance)
                      = KeySet(DatasetStatsOut[k].avg_performance)
          /\ \A k \in DOMAIN FamilyStats :
                /\ MeansDefined(FamilyStats[k].avg_performance)
                /\ KeySet(FamilyStats[k].avg_performance)
                      = NamesWith(LAMBDA e, r : e.model_info.model_family = FamilyStats[k].family)
                /\ \A i \in DOMAIN FamilyStats[k].avg_parameter_count :
                      FamilyStats[k].avg_parameter_count[i].den > 0
          /\ \A k \in DOMAIN Trend : Trend[k].avg_value.den > 0
    /\ correlations # <<>> =>
          \A m \in DOMAIN correlations[1] :
              Len(correlations[1][m].correlation_matrix) = Len(correlations[1][m].metrics)
    /\ leaderboards # <<>> =>
          \A b \in DOMAIN leaderboards[1] : \A e \in DOMAIN leaderboards[1][b].entries :
              \A i \in DOMAIN leaderboards[1][b].entries[e].efficiency_score :
                  leaderboards[1][b].entries[e].efficiency_score[i].den > 0
    /\ benchmark_entries = <<>> =>
          /\ summary # <<>> =>
                /\ TaskStats = <<>> /\ DatasetStatsOut = <<>>
                /\ FamilyStats = <<>> /\ Trend = <<>>
          /\ correlations # <<>> => correlations[1] = <<>>
          /\ leaderboards # <<>> => leaderboards[1] = <<>>

\* the three methods have returned for an input that holds an entry without
\* results, an entry of the same family whose parameter count is unknown and
\* an entry with results
C14_Witness ==
    /\ summary # <<>> /\ correlations # <<>> /\ leaderboards # <<>>
    /\ \E i \in DOMAIN benchmark_entries : benchmark_entries[i].evaluation_results = <<>>
    /\ \E k \in DOMAIN FamilyStats : FamilyStats[k].avg_parameter_count = <<>>
    /\ \E k \in DOMAIN TaskStats : TaskStats[k].avg_metrics = <<>>
    /\ \E k \in DOMAIN TaskStats : TaskStats[k].avg_metrics # <<>>

----------------------------------------------------------------------------
(* Claims about undefined coefficients (SpecCorrelations) *)

\* the value an entry records for a metric name: the last one it carries
LastValue(i, name) ==
    LET rs == benchmark_entries[i].evaluation_results
        J == {j \in DOMAIN rs : rs[j].metric_name = name}
    IN rs[CHOOSE j \in J : \A h \in J : h <= j].value
\* the values a metric has recorded for a task, in input order
RecordedValues(task, name) ==
    LET recorded == SelectSeq([i \in DOMAIN benchmark_entries |-> i], LAMBDA i :
                        /\ i \in EntriesOfTask(task)
                        /\ Cardinality(MetricNamesOf(i)) >= 2
                        /\ name \in MetricNamesOf(i))
    IN [k \in DOMAIN recorded |-> LastValue(recorded[k], name)]
NoVariance(values) == \A i, j \in DOMAIN values : values[i] = values[j]

\* C15: an off-diagonal coefficient is exactly 0.0 whenever one of its two
\* value lists, cut to the shorter length, has zero variance (the
\* coefficient is undefined).
C15_UndefinedIsZero ==
    correlations # <<>> =>
        \A m \in DOMAIN Matrices :
            LET names == Matrices[m].metrics
                M == Matrices[m].correlation_matrix
                task == Matrices[m].task_type
            IN \A i, j \in DOMAIN names :
                  LET v1 == RecordedValues(task, names[i])
                      v2 == RecordedValues(task, names[j])
                      min_len == IF Len(v1) < Len(v2) THEN Len(v1) ELSE Len(v2)
                  IN (/\ i # j
                      /\ \/ NoVariance(SubSeq(v1, 1, min_len))
                         \/ NoVariance(SubSeq(v2, 1, min_len)))
                     => M[i][j] = 0

----------------------------------------------------------------------------
(* Claims about the classifiers of a raw model record (SpecClassify) *)

Called(function) == classified # <<>> /\ classified[1].function = function
Result == classified[1].result
Exceptions == {"OverflowError"}
IdLower == Lower(model_data.model_id)
TagText == Lower(Join(model_data.tags))
IdAndTags == Lower(model_data.model_id \o " " \o Join(model_data.tags))
Families == DOMAIN family_patterns
Rungs == DOMAIN size_ladder

\* a keyword of the family at place k of the table occurs in the lower-cased
\* identifier or in the lower-cased tag text
FamilyMatches(k, id_lower, tag_text) ==
    \E i \in DOMAIN family_patterns[k][2] :
        \/ Contains(family_patterns[k][2][i], id_lower)
        \/ Contains(family_patterns[k][2][i], tag_text)

\* a keyword of the rung at place k of the ladder occurs in the text
RungMatches(k, text) ==
    \E i \in DOMAIN size_ladder[k][2] : Contains(size_ladder[k][2][i], text)

\* a number followed by the marker occurs in the text
UnitMatches(marker, text) ==
    \E i \in 1..Len(text) : MatchAt(text, i, marker)

\* C16: every classifier returns without raising, and when nothing matches
\* the results are OTHER, absent, absent, TEXT_CLASSIFICATION and ACCURACY
C16_ClassifiersTotal ==
    LET id_lower == IdLower
        tag_text == TagText
        text == IdAndTags
    IN /\ classified # <<>> => Result \notin Exceptions
       /\ Called("_extract_model_family")
            /\ (\A k \in Families : ~FamilyMatches(k, id_lower, tag_text))
              => Result = "other"
       /\ Called("_extract_model_size") /\ (\A k \in Rungs : ~RungMatches(k, text))
              => Result = "None"
       /\ Called("_extract_parameter_count")
            /\ (\A marker \in {"b", "m", "k"} : ~UnitMatches(marker, text))
              => Result = "None"
       /\ Called("_map_pipeline_to_task") /\ ~DictHas(pipeline_mapping, model_data.pipeline_tag)
              => Result = "text-classification"
       /\ Called("_map_metric_name")
            /\ (\A k \in DOMAIN metric_mapping :
                    ~Contains(metric_mapping[k][1], model_data.metric_name))
              => Result = "accuracy"

\* C17: _extract_model_family returns the first family of the table with a
\* keyword in the lower-cased identifier or tag text, OTHER when there is
\* none; an identifier with keywords of both BERT and GPT is BERT
C17_FirstFamily ==
    Called("_extract_model_family") =>
        LET id_lower == IdLower
            tag_text == TagText
            matching == {k \in Families : FamilyMatches(k, id_lower, tag_text)}
        IN /\ \A k \in matching :
                  (\A j \in matching : k <= j) => Result = family_patterns[k][1]
           /\ matching = {} => Result = "other"
           /\ Contains("bert", id_lower) /\ Contains("gpt", id_lower) => Result = "bert"

\* an identifier with keywords of BERT and GPT, or one that names GPT while
\* a tag names BERT
C17_Witness ==
    /\ Called("_extract_model_family")
    /\ Contains("gpt", IdLower)
    /\ Contains("bert", IdLower) \/ Contains("bert", TagText)
    /\ Result = "bert"

\* C18: _extract_model_size returns the size of the first rung of the ladder
\* with a keyword in the lower-cased text, absent when there is none; XXL
\* only when no keyword of an earlier rung occurs
C18_FirstRung ==
    Called("_extract_model_size") =>
        LET text == IdAndTags
            matching == {k \in Rungs : RungMatches(k, text)}
        IN /\ \A k \in matching :
                  (\A j \in matching : k <= j) => Result = size_ladder[k][1]
           /\ matching = {} => Result = "None"
           /\ Result = "xxl" => matching = {Len(size_ladder)}

\* a text with a keyword of the last rung and of an earlier one
C18_Witness ==
    /\ Called("_extract_model_size")
    /\ RungMatches(Len(size_ladder), IdAndTags)
    /\ \E j \in 1..(Len(size_ladder) - 1) :
           RungMatches(j, IdAndTags) /\ Result = size_ladder[j][1]

\* the decimal text of number * 1000^power truncated to an integer, by
\* moving the decimal point
ExactCount(number, power) ==
    LET dot == IndexIn(number, ".")
        int_part == IF dot = 0 THEN number ELSE SubSeq(number, 1, dot - 1)
        frac_part == IF dot = 0 THEN "" ELSE SubSeq(number, dot + 1, Len(number))
        places == SubSeq(frac_part \o Repeat("0", 3 * power), 1, 3 * power)
        digits == StripZeros(int_part \o places)
    IN IF digits = "" THEN "0" ELSE digits

\* the result the claim gives: the leftmost number with the first of the
\* markers b, m, k that occurs at all, times its unit
ClaimedCount ==
    LET text == IdAndTags
        Leftmost(marker) ==
            LET i == Least({j \in 1..Len(text) : MatchAt(text, j, marker)})
            IN SubSeq(text, i, GroupEnd(text, i))
    IN IF UnitMatches("b", text) THEN ExactCount(Leftmost("b"), 3)
       ELSE IF UnitMatches("m", text) THEN ExactCount(Leftmost("m"), 2)
       ELSE IF UnitMatches("k", text) THEN ExactCount(Leftmost("k"), 1)
       ELSE "None"

\* C19: a call of _extract_parameter_count that returns gives the leftmost
\* number with a 'b' marker times 1,000,000,000 truncated to an integer,
\* otherwise the leftmost with 'm' times 1,000,000, otherwise the leftmost
\* with 'k' times 1,000, otherwise absent
C19_UnitOrder ==
    Called("_extract_parameter_count") /\ Result \notin Exceptions => Result = ClaimedCount

\* C20: _map_metric_name returns the MetricType of the first table key that
\* is a substring of the name ignoring letter case, ACCURACY when there is
\* none, so names that differ only in case map alike
C20_CaseInsensitive ==
    Called("_map_metric_name") =>
        LET hits == {k \in DOMAIN metric_mapping :
                         Contains(metric_mapping[k][1], Lower(model_data.metric_name))}
        IN Result = IF hits = {} THEN "accuracy" ELSE metric_mapping[Least(hits)][2]

\* C21: the identifier "meta-llama/Llama-2-70b-hf" with tags ["llama", "70b"]
\* is classified as family LLAMA, size XXL and 70,000,000,000 parameters
C21_LlamaExample ==
    model_data.model_id = ExampleId /\ model_data.tags = ExampleTags =>
        /\ Called("_extract_model_family") => Result = "llama"
        /\ Called("_extract_model_size") => Result = "xxl"
        /\ Called("_extract_parameter_count") => Result = "70000000000"

\* the parameter count of the example has been extracted
C21_Witness ==
    /\ model_data.model_id = ExampleId /\ model_data.tags = ExampleTags
    /\ Called("_extract_parameter_count")
    /\ Result = "70000000000"

----------------------------------------------------------------------------
(* Claims about the three methods called in any order (Spec) *)

\* C22 as stated: the entry sequence is never changed and the result a
\* method has returned is the result it returns at any other place of the
\* order, that is, whenever it is invoked on that sequence
C22_OrderIndependent ==
    /\ summary # <<>> => summary[1] = compute_summary_statistics(benchmark_entries)
    /\ correlations # <<>> =>
           correlations[1] = compute_correlation_matrices(benchmark_entries)
    /\ leaderboards # <<>> => leaderboards[1] = generate_leaderboards(benchmark_entries)

\* the clock-free part of every result is the one any invocation returns
ResultsOfEntries ==
    /\ summary # <<>> =>
           SummaryFixed(summary[1]) = SummaryFixed(compute_summary_statistics(benchmark_entries))
    /\ correlations # <<>> =>
           correlations[1] = compute_correlation_matrices(benchmark_entries)
    /\ leaderboards # <<>> =>
           LeaderboardsFixed(leaderboards[1])
               = LeaderboardsFixed(generate_leaderboards(benchmark_entries))

\* a step changes at most one result, to the value of its method on the
\* entries at the clock reading of the step, and leaves the entries alone
OneResultPerStep ==
    /\ benchmark_entries' = benchmark_entries
    /\ summary' # summary =>
           /\ summary' = <<compute_summary_statistics(benchmark_entries)>>
           /\ correlations' = correlations /\ leaderboards' = leaderboards
    /\ correlations' # correlations =>
           /\ correlations' = <<compute_correlation_matrices(benchmark_entries)>>
           /\ summary' = summary /\ leaderboards' = leaderboards
    /\ leaderboards' # leaderboards =>
           /\ leaderboards' = <<generate_leaderboards(benchmark_entries)>>
           /\ summary' = summary /\ correlations' = correlations

\* C22 amended: the methods leave the entry sequence unchanged and share no
\* state; each result depends on the entries and on the clock read by its
\* own call only, so the order of the calls changes nothing but the fields
\* computed from the clock
C22_OrderIndependentButClock == []ResultsOfEntries /\ [][OneResultPerStep]_vars

\* the three methods have returned, the summary before the clock moved and
\* the leaderboards after it
C22_Witness ==
    /\ summary # <<>> /\ correlations # <<>> /\ leaderboards # <<>>
    /\ Len(benchmark_entries) > 1
    /\ Matrices # <<>>
    /\ Leaderboards # <<>>
    /\ summary[1].last_updated < Leaderboards[1].last_updated

----------------------------------------------------------------------------
(* Claims about the latest trend checkpoint (SpecSummary) *)

\* the entries of a TrendPoint's task that its model_count may count: those
\* with a known created_at no later than the point's date and no later than
\* 35 days before the computation instant
Counted(point) ==
    {i \in EntriesOfTask(point.task_type) :
        /\ benchmark_entries[i].model_info.created_at # NoDate
        /\ benchmark_entries[i].model_info.created_at <= point.date
        /\ benchmark_entries[i].model_info.created_at <= summary[1].last_updated - 35}

\* C30: no TrendPoint is dated later than 35 days before the computation
\* instant, an entry created later than that or without created_at is
\* counted in no TrendPoint, and for a fixed task and metric model_count
\* does not decrease from one checkpoint date to a later one
C30_LatestCheckpoint ==
    summary # <<>> =>
        /\ Checkpoint(TrendMonths - 1) = summary[1].last_updated - 35
        /\ \A k \in DOMAIN Trend :
              /\ Trend[k].date <= summary[1].last_updated - 35
              /\ Trend[k].model_count = Cardinality(Counted(Trend[k]))
        /\ \A k, h \in DOMAIN Trend :
              /\ Trend[k].task_type = Trend[h].task_type
              /\ Trend[k].metric_name = Trend[h].metric_name
              /\ Trend[k].date <= Trend[h].date
              => Trend[k].model_count <= Trend[h].model_count

\* a task and metric whose model_count grows at the latest checkpoint, by an
\* entry created on that very day, while the task also has an entry created
\* later and one without created_at
C30_Witness ==
    /\ summary # <<>>
    /\ \E k, h \in DOMAIN Trend :
          /\ Trend[k].task_type = Trend[h].task_type
          /\ Trend[k].metric_name = Trend[h].metric_name
          /\ Trend[h].date = summary[1].last_updated - 35
          /\ Trend[k].model_count < Trend[h].model_count
          /\ \E i \in EntriesOfTask(Trend[h].task_type) :
                benchmark_entries[i].model_info.created_at = NoDate
                    \/ benchmark_entries[i].model_info.created_at > Trend[h].date

----------------------------------------------------------------------------
(* Claims about the ingestion of raw records (SpecIngest) *)

MalformedTimestamp(raw) == raw.createdAt # <<>> /\ ~raw.createdAt[1].iso
NotIterable(raw) == raw.cardData # <<>> /\ ~raw.cardData[1].iterable
MalformedResult(result) ==
    \/ ~result.wellformed
    \/ \E k \in DOMAIN result.metrics :
          result.metrics[k].value # <<>> /\ ~result.metrics[k].value[1].number
MalformedPayload(raw) ==
    \/ NotIterable(raw)
    \/ /\ raw.cardData # <<>>
       /\ \E k \in DOMAIN raw.cardData[1].results : MalformedResult(raw.cardData[1].results[k])
WellFormedRecord(raw) ==
    raw.id # "" /\ ~MalformedTimestamp(raw) /\ ~MalformedPayload(raw)
\* the values the well-formed metrics of a record give
GivenValues(raw) ==
    IF raw.cardData = <<>> THEN {}
    ELSE LET results == raw.cardData[1].results
         IN {results[k].metrics[j].value[1].value :
                <<k, j>> \in {<<k, j>> \in (DOMAIN results) \X (1..8) :
                                 /\ results[k].wellformed
                                 /\ j \in DOMAIN results[k].metrics
                                 /\ results[k].metrics[j].value # <<>>
                                 /\ results[k].metrics[j].value[1].number}}
FirstOfId(k) == \A j \in 1..(k - 1) : models[j].id # models[k].id
EntriesOf(id) == {e \in Range(fetched[1]) : e.model_info.model_id = id}
RealIds == {real[k].model_info.model_id : <<real, k>> \in {<<real, k>> \in RealBenchmarks \X (1..1) : k \in DOMAIN real}}
\* a well-formed record is returned with its own creation date
Returned(k) ==
    WellFormedRecord(models[k]) /\ FirstOfId(k) =>
        \E e \in EntriesOf(models[k].id) :
            /\ e.model_info.created_at = IF models[k].createdAt = <<>> THEN NoDate
                                         ELSE models[k].createdAt[1].instant
            /\ e.evaluation_results # <<>>
\* a malformed payload: the record is omitted when the payload cannot be
\* iterated; otherwise its malformed parts give no result
PayloadSkipped(k) ==
    /\ NotIterable(models[k]) /\ models[k].id \notin RealIds
          /\ (\A j \in DOMAIN models : models[j].id = models[k].id => NotIterable(models[j]))
        => EntriesOf(models[k].id) = {}
    /\ MalformedPayload(models[k]) /\ ~NotIterable(models[k]) /\ models[k].id # "" /\ FirstOfId(k)
        => \E e \in EntriesOf(models[k].id) :
              /\ e.evaluation_results # <<>>
              /\ \A r \in Range(e.evaluation_results) :
                     r.value \in GivenValues(models[k]) \cup SyntheticValues
\* the record of a malformed timestamp is omitted or has no creation date
TimestampAbsent(k) ==
    MalformedTimestamp(models[k]) /\ models[k].id # "" /\ FirstOfId(k) =>
        \A e \in EntriesOf(models[k].id) : e.model_info.created_at = NoDate
\* the record of a malformed timestamp is returned, dated at the current time
TimestampNow(k) ==
    MalformedTimestamp(models[k]) /\ models[k].id # "" /\ FirstOfId(k)
          /\ ~NotIterable(models[k]) =>
        \E e \in EntriesOf(models[k].id) : e.model_info.created_at = now

\* C25 as stated: a record with a malformed timestamp or a malformed
\* evaluation payload never aborts the batch; the offending record is omitted
\* or the offending field is left absent, and every well-formed record is
\* returned.
C25_OffendingFieldAbsent ==
    fetched # <<>> =>
        \A k \in DOMAIN models : Returned(k) /\ PayloadSkipped(k) /\ TimestampAbsent(k)

\* C25 (amended): a record with a malformed timestamp or a malformed
\* evaluation payload never aborts the batch; a payload that cannot be
\* iterated omits the record, malformed results are skipped, a timestamp
\* that does not parse is replaced by the current time, and every well-formed
\* record is returned.
C25_OffendingTimestampIsNow ==
    fetched # <<>> =>
        \A k \in DOMAIN models : Returned(k) /\ PayloadSkipped(k) /\ TimestampNow(k)

\* a batch of a record with a malformed timestamp, one with a malformed
\* payload and a well-formed one has been fetched and all three are returned
C25_Witness ==
    /\ fetched # <<>>
    /\ Len(fetched[1]) = 3
    /\ \E i, j, k \in DOMAIN models :
          /\ MalformedTimestamp(models[i]) /\ models[i].id # ""
          /\ MalformedPayload(models[j]) /\ ~NotIterable(models[j])
          /\ WellFormedRecord(models[k])
          /\ \E e \in EntriesOf(models[i].id) : e.model_info.created_at = now

----------------------------------------------------------------------------
(* Claims about the cache of the service (SpecService) *)

Coroutines == {Startup} \cup Handlers
\* the step in which the refresh_cache of p ends its work on the cache without
\* having fetched entries or by an exception
FailedRefreshStep(p) ==
    /\ requests[p].pc = "fetching"
    /\ requests'[p].pc = "closing"
    /\ requests'[p].outcome \in {"empty", "raised"}
UpdatingRefreshStep(p) ==
    /\ requests[p].pc = "fetching"
    /\ requests'[p].pc = "closing"
    /\ requests'[p].outcome = "updated"

\* C23: a refresh_cache execution that raises during the fetch or the
\* aggregation, or that fetches no entry, leaves benchmark_cache["data"] and
\* benchmark_cache["last_updated"] as they were: the only steps that change
\* the cache are those of a refresh that fetched entries and did not raise,
\* and they never clear it.
C23_FailedRefreshKeepsCache ==
    [][/\ \A p \in Coroutines : FailedRefreshStep(p) => benchmark_cache' = benchmark_cache
       /\ benchmark_cache' # benchmark_cache =>
             /\ \E p \in Coroutines : UpdatingRefreshStep(p)
             /\ benchmark_cache'.data # <<>>
             /\ benchmark_cache'.last_updated # NoDate]_vars

\* the cache holds data while one refresh has raised and another has fetched
\* no entry
C23_Witness ==
    /\ benchmark_cache.data # <<>>
    /\ \E p, q \in Coroutines :
          /\ requests[p].pc = "closing" /\ requests[p].outcome = "raised"
          /\ requests[q].pc = "closing" /\ requests[q].outcome = "empty"

\* C24: refreshes are serialized: at most one refresh_cache execution is
\* between the start of its fetch and the end of its aggregation at any time.
C24_OneRefreshInFlight ==
    Cardinality({p \in Coroutines : requests[p].pc = "fetching"}) <= 1

\* the step in which get_benchmarks answers, its refresh (if any) not having
\* raised
Answers(p) ==
    /\ requests'[p].kind = "get"
    /\ requests'[p].pc = "done"
    /\ requests'[p] # requests[p]
    /\ requests'[p].outcome # "raised"

\* C26: when the cache holds no data after get_benchmarks has attempted its
\* refresh, GET /api/benchmarks is answered with status 503 and the detail
\* 'Benchmark data is not available. Please try again later.'
C26_UnavailableIs503 ==
    [][\A p \in Handlers :
          Answers(p) /\ benchmark_cache.data = <<>> =>
              /\ requests'[p].response[1].status = ServiceUnavailable
              /\ requests'[p].response[1].detail = Unavailable]_vars

\* the cache is invalid: no data, no timestamp, or at least ttl_minutes old
Invalid ==
    \/ benchmark_cache.data = <<>>
    \/ benchmark_cache.last_updated = NoDate
    \/ utcnow - benchmark_cache.last_updated >= ttl_minutes
\* the step in which GET /api/benchmarks is received by p
Received(p) ==
    /\ requests[p].pc \in {"idle", "done"}
    /\ requests'[p].kind = "get"
    /\ requests'[p] # requests[p]

\* C27: get_benchmarks invokes refresh_cache if and only if force_refresh is
\* true or the cache is invalid (no data, no timestamp, or last_updated at
\* least 60 minutes old); otherwise it returns the cached response at once
\* and leaves the cache unchanged.
C27_RefreshIffForcedOrInvalid ==
    [][\A p \in Handlers :
          Received(p) =>
              /\ requests'[p].pc = "fetching" <=> (requests'[p].force_refresh \/ Invalid)
              /\ requests'[p].pc # "fetching" =>
                    /\ requests'[p].pc = "done"
                    /\ requests'[p].response = <<Response(OK, "", benchmark_cache.data)>>
                    /\ benchmark_cache' = benchmark_cache]_vars

\* a cache that is ttl_minutes old has made an unforced request refresh, and
\* another request has been answered from the cache
C27_Witness ==
    /\ benchmark_cache.data # <<>>
    /\ utcnow - benchmark_cache.last_updated = ttl_minutes
    /\ \E p, q \in Handlers :
          /\ requests[p].kind = "get" /\ requests[p].pc = "fetching"
          /\ ~requests[p].force_refresh
          /\ requests[q].kind = "get" /\ requests[q].pc = "done"
          /\ requests[q].response[1].status = OK

\* C28: benchmark_cache["data"] is set if and only if
\* benchmark_cache["last_updated"] is set, in every state and in every
\* answer of the cache-status request.
C28_DataIffTimestamp ==
    /\ benchmark_cache.data # <<>> <=> benchmark_cache.last_updated # NoDate
    /\ \A p \in Handlers :
          requests[p].kind = "status" =>
              (requests[p].response[1].body[1].has_data
                  <=> requests[p].response[1].body[1].last_updated # NoDate)

\* the cache holds data, refreshed while another refresh is suspended, and a
\* cache-status request has seen it
C28_Witness ==
    /\ benchmark_cache.data # <<>>
    /\ \E p, q \in Handlers :
          /\ requests[p].kind = "status" /\ requests[p].response[1].body[1].has_data
          /\ requests[q].pc = "fetching"

\* C29: the cached BenchmarkResponse is always internally consistent: its
\* summary, correlations and leaderboards are those of the entry list stored
\* in its data field.
C29_ResponseConsistent ==
    benchmark_cache.data # <<>> =>
        LET response == benchmark_cache.data[1]
        IN /\ response.summary = compute_summary_statistics(response.data)
           /\ response.correlations = compute_correlation_matrices(response.data)
           /\ response.leaderboards = generate_leaderboards(response.data)

\* two concurrent refreshes have both updated the cache
C29_Witness ==
    /\ benchmark_cache.data # <<>>
    /\ \E p, q \in Handlers :
          /\ p # q
          /\ requests[p].pc = "closing" /\ requests[p].outcome = "updated"
          /\ requests[q].pc = "closing" /\ requests[q].outcome = "updated"

====
